---- MODULE Spec2Model ----
(***************************************************************************)
(* Web-Display-Screen: the content store (announcements table, settings    *)
(* row), the Display Cycler (Announcements component) and the ordering     *)
(* protocol of the Admin List Editor (DisplaySettings component).          *)
(*                                                                         *)
(* React semantics used throughout: a state setter that changes a value    *)
(* causes a render, and the effects whose dependencies changed run their   *)
(* cleanup and then their body as part of the same step; a setter called   *)
(* with an unchanged primitive causes nothing; a setter called with a new  *)
(* array always counts as a change.                                        *)
(***************************************************************************)
EXTENDS Integers, Sequences, FiniteSets, TLC

\* ---------------------------------------------------------------- bounds
MaxItems == 3
MaxHandles == 3
MaxFetches == 1
MaxAdminFetches == 2

\* display_duration values an upload can carry; 0 stands for a falsy
\* (unset) duration
Durations == {0, 5}
\* refresh_interval values the settings panel can save
RefreshIntervals == {0, 1}

\* -------------------------------------------------------- program constants
DefaultOrderIndex == 0
InitialRefreshInterval == 5
DefaultRefreshState == 5
FallbackDuration == 10
MsPerSecond == 1000
SecondsPerMinute == 60
DurationFormState == 10

NoHandle == 0
Handles == 1..MaxHandles

VARIABLES
    \* content store
    tblAnnouncements,   \* set of rows of public.announcements
    tblSettings,        \* the singleton row of public.settings
    nextId,             \* next id / creation time the store hands out
    \* Display Cycler (Announcements component)
    mounted,
    announcements,
    currentIndex,
    loading,
    refreshInterval,
    timers,             \* the browser's armed timers
    timer,              \* timeout id held by the cycle effect's cleanup
    pollInterval,       \* interval id held by the poll effect's cleanup
    fetchAnn,           \* fetches waiting for the announcements response
    fetchSet,           \* fetches waiting for the settings response
    \* history of the advance timer's firings, kept when recording
    recording,
    cycleStart,         \* currentIndex before the first firing of the run
    cycleFires,         \* consecutive firings since the list or a control
                        \* last set the index
    \* Admin List Editor (AdminPanel component of DisplaySettings.tsx)
    adminAnnouncements, \* its announcements state: the local list
    hasOrderChanges,
    savingOrder,
    saveReq,            \* the updates of the saveOrder upsert in flight
    toast,              \* the notification saveOrder showed last
    adminFetches,       \* its fetchAnnouncements calls in flight
    operatorOrder,      \* history: the ids, in order, of the list the last
                        \* reorder of the operator produced
    lastSaved           \* history: the ids, in order, of the list the last
                        \* successful saveOrder saved, while nothing else
                        \* has written to the table since; <<>> otherwise

VARIABLES
    \* Auth Gate (AuthGate component)
    gateLoading,        \* its loading state
    isLocked,
    isAuthenticated,
    isSetupMode,
    verifying,
    localAuth,          \* localStorage holds display_board_auth = 'true'
    checkPc,            \* the await checkSecurity is at
    gateReq,            \* the request of handleSetup or handleLogin in flight
    notice,             \* the toast the gate or the settings panel showed last
    lastSubmit,         \* history: the values of the form submitted last
    \* security part of the settings panel (AdminPanel component)
    panelSecurity,      \* settings.security_enabled of its settings state
    isPasswordSet,
    showSetupModal,
    panelPc,            \* the await the settings part of its fetch is at
    panelReq,           \* its settings or password request in flight
    \* a call of one of the password functions of the store
    rpcCall,
    rpcResult,
    \* media storage and deleteAnnouncement
    bucket,             \* the files of the storage bucket 'announcements'
    delReq,             \* the deleteAnnouncement in flight
    \* title, duration and active edits of the editor
    editReq             \* the update of updateTitle, updateDuration or
                        \* toggleActive in flight

storeVars == <<tblAnnouncements, tblSettings, nextId>>
cyclerVars == <<mounted, announcements, currentIndex, loading, refreshInterval,
                timers, timer, pollInterval, fetchAnn, fetchSet,
                recording, cycleStart, cycleFires>>
editorVars == <<adminAnnouncements, hasOrderChanges, savingOrder, saveReq,
                toast, adminFetches, lastSaved, operatorOrder>>
gateVars == <<gateLoading, isLocked, isAuthenticated, isSetupMode, verifying,
              localAuth, checkPc, gateReq, notice, lastSubmit,
              panelSecurity, isPasswordSet, showSetupModal, panelPc, panelReq,
              rpcCall, rpcResult>>
mediaVars == <<bucket, delReq>>
vars == <<storeVars, cyclerVars, editorVars, gateVars, mediaVars, editReq>>

\* ------------------------------------------------------------ the store
\* title: title || selectedFile.name, the title an upload stores
UploadTitle == "file"
Titles == {UploadTitle, "news"}

Row(id, created, act, ord, dur) ==
    [id |-> id, created_at |-> created, active |-> act,
     order_index |-> ord, display_duration |-> dur, title |-> UploadTitle]

\* insert of confirmUpload: image_url, title, display_duration, active given,
\* id, created_at and order_index from the column defaults
InsertRow(tbl, id, dur) ==
    tbl \cup {Row(id, id, TRUE, DefaultOrderIndex, dur)}

UpdateActive(tbl, id, checked) ==
    {IF r.id = id THEN [r EXCEPT !.active = checked] ELSE r : r \in tbl}

\* upsert on conflict id: a row with the id is replaced, otherwise inserted
UpsertRows(tbl, updates) ==
    {r \in tbl : \A u \in updates : u.id # r.id} \cup updates

\* .order('created_at', { ascending: false })
RECURSIVE OrderByCreatedAtDesc(_)
OrderByCreatedAtDesc(S) ==
    IF S = {} THEN <<>>
    ELSE LET first == CHOOSE r \in S : \A s \in S : s.created_at <= r.created_at
         IN  <<first>> \o OrderByCreatedAtDesc(S \ {first})

\* .order('order_index', { ascending: true }).order('created_at', { ascending: false })
OrderIndexBefore(r, s) ==
    \/ r.order_index < s.order_index
    \/ r.order_index = s.order_index /\ r.created_at >= s.created_at

RECURSIVE OrderByOrderIndexThenCreatedAt(_)
OrderByOrderIndexThenCreatedAt(S) ==
    IF S = {} THEN <<>>
    ELSE LET first == CHOOSE r \in S : \A s \in S : OrderIndexBefore(r, s)
         IN  <<first>> \o OrderByOrderIndexThenCreatedAt(S \ {first})

IdsOf(list) == [i \in DOMAIN list |-> list[i].id]

\* ------------------------------------------- the settings row, passwords
\* SQL NULL, as a column value and as the third truth value
Null == "NULL"

\* the strings typed into the password fields; "" is an empty field
Passwords == {"", "a", "b"}

\* insert into public.settings values (1, 5, 10, false, null)
InitialSettings ==
    [refresh_interval |-> InitialRefreshInterval, security_enabled |-> FALSE,
     admin_password |-> Null]

\* the rows the settings table can hold: the columns can be written by anyone
\* (policy "Anyone can update settings")
SettingsRows ==
    [refresh_interval : {InitialRefreshInterval}, security_enabled : BOOLEAN,
     admin_password : {Null} \cup Passwords]

\* SQL comparison and connectives over "true", "false" and Null
SqlEq(a, b) ==
    IF a = Null \/ b = Null THEN Null ELSE IF a = b THEN "true" ELSE "false"

SqlNe(a, b) ==
    IF a = Null \/ b = Null THEN Null ELSE IF a # b THEN "true" ELSE "false"

SqlIsNotNull(a) == IF a = Null THEN "false" ELSE "true"

SqlAnd(x, y) ==
    IF x = "false" \/ y = "false" THEN "false"
    ELSE IF x = Null \/ y = Null THEN Null ELSE "true"

coalesce(x, d) == IF x = Null THEN d ELSE x

\* is_password_set(): the value the rpc hands to the client
is_password_set(row) ==
    LET has_pass == SqlAnd(SqlIsNotNull(row.admin_password),
                           SqlNe(row.admin_password, ""))
    IN  coalesce(has_pass, "false") = "true"

\* a comparison in which an unknown result counts as a match
verify_null_matches(row, attempt) ==
    coalesce(SqlEq(row.admin_password, attempt), "true") = "true"

\* verify_admin_password(attempt)
verify_admin_password(row, attempt) ==
    LET is_correct == SqlEq(row.admin_password, attempt)
    IN  coalesce(is_correct, "false") = "true"

\* a function that refuses only when the comparison is false
change_unless_false(row, current_password, new_password) ==
    LET is_valid == SqlEq(row.admin_password, current_password)
    IN  IF is_valid = "false"
        THEN [result |-> FALSE, row |-> row]
        ELSE [result |-> TRUE,
              row |-> [row EXCEPT !.admin_password = new_password]]

\* change_admin_password(current_password, new_password): the value returned
\* and the settings row after the call
change_admin_password(row, current_password, new_password) ==
    LET is_valid == SqlEq(row.admin_password, current_password)
    IN  IF is_valid # "true"
        THEN [result |-> FALSE, row |-> row]
        ELSE [result |-> TRUE,
              row |-> [row EXCEPT !.admin_password = new_password]]

\* the rows the cycler's query returns
CyclerQuery(tbl) == OrderByCreatedAtDesc({r \in tbl : r.active})

\* ------------------------------------------------------------- timers
Timeouts == {t \in timers : t.kind = "timeout"}
Intervals == {t \in timers : t.kind = "interval"}

HandlesIn(tm) == {t.h : t \in tm}

\* setTimeout and setInterval hand out an id no armed timer has; ids of
\* cleared and of fired timers are handed out again (the least free one)
CanArm(used) == used # Handles

FreshHandle(used) == CHOOSE h \in Handles \ used : \A g \in Handles \ used : h <= g

ClearTimer(tm, h) == {t \in tm : t.h # h}

\* ------------------------------------------------- the cycle effect
\* a duration that ignores the item
CycleDurationFixed(list, idx) == FallbackDuration * MsPerSecond

\* (currentAnnouncement?.display_duration || 10) * 1000
CycleDuration(list, idx) ==
    LET d == IF idx + 1 \in DOMAIN list THEN list[idx + 1].display_duration ELSE 0
    IN  (IF d = 0 THEN FallbackDuration ELSE d) * MsPerSecond

\* a cleanup that cancels nothing
CycleCleanupNone(tm, h) == tm

\* return () => clearTimeout(timer)
CycleCleanup(tm, h) == IF h = NoHandle THEN tm ELSE ClearTimer(tm, h)

\* the early return taken for the empty list only
CycleIdleOnlyEmpty(list) == Len(list) < 1

\* if (announcements.length <= 1) return
CycleIdle(list) == Len(list) <= 1

\* the cleanup of the effect's previous run, then its body; the timeout keeps
\* what its callback and the effect closed over: the list's length and the
\* index the duration was taken for; age is the time since the timer was
\* armed, which only the specification with a clock advances
CycleEffect(list, idx, tm, h) ==
    LET cleared == CycleCleanup(tm, h)
    IN  IF CycleIdle(list)
        THEN [timers |-> cleared, timer |-> NoHandle]
        ELSE LET new == FreshHandle(HandlesIn(cleared))
             IN  [timers |-> cleared \cup
                        {[h |-> new, kind |-> "timeout",
                          delay |-> CycleDuration(list, idx), len |-> Len(list),
                          idx |-> idx, age |-> 0]},
                  timer |-> new]

\* ------------------------------------------------- the poll effect
\* a cleanup that cancels nothing
PollCleanupNone(tm, h) == tm

\* return () => clearInterval(pollInterval)
PollCleanup(tm, h) == IF h = NoHandle THEN tm ELSE ClearTimer(tm, h)

\* the early return taken for negative intervals only
PollDisabledNegative(interval) == interval < 0

\* if (refreshInterval <= 0) return
PollDisabled(interval) == interval <= 0

\* refreshInterval * 60 * 1000
IntervalMs(interval) == interval * SecondsPerMinute * MsPerSecond

PollEffect(interval, tm, h) ==
    LET cleared == PollCleanup(tm, h)
    IN  IF PollDisabled(interval)
        THEN [timers |-> cleared, pollInterval |-> NoHandle]
        ELSE LET new == FreshHandle(HandlesIn(cleared))
             IN  [timers |-> cleared \cup
                        {[h |-> new, kind |-> "interval",
                          delay |-> IntervalMs(interval), len |-> 0, idx |-> 0,
                          age |-> 0]},
                  pollInterval |-> new]

\* render: what the component returns
View ==
    IF ~mounted THEN "none"
    ELSE IF loading THEN "loading"
    ELSE IF Len(announcements) = 0 THEN "empty"
    ELSE "stage"

\* ------------------------------------------------------------- Init
\* the store after the setup script
InitStore ==
    /\ tblAnnouncements = {}
    /\ tblSettings = InitialSettings
    /\ nextId = 1

\* the cycler after its first render and the first run of its three effects
MountedState ==
    LET poll == PollEffect(DefaultRefreshState, {}, NoHandle)
        cyc == CycleEffect(<<>>, 0, poll.timers, NoHandle)
    IN  [announcements |-> <<>>, currentIndex |-> 0, loading |-> TRUE,
         refreshInterval |-> DefaultRefreshState,
         timers |-> cyc.timers, timer |-> cyc.timer,
         pollInterval |-> poll.pollInterval]

InitCycler ==
    /\ mounted = TRUE
    /\ announcements = MountedState.announcements
    /\ currentIndex = MountedState.currentIndex
    /\ loading = MountedState.loading
    /\ refreshInterval = MountedState.refreshInterval
    /\ timers = MountedState.timers
    /\ timer = MountedState.timer
    /\ pollInterval = MountedState.pollInterval
    /\ fetchAnn = 1
    /\ fetchSet = 0
    /\ cycleStart = 0
    /\ cycleFires = 0

\* the editor after its first render: its mount effect has called
\* fetchAnnouncements
InitEditor ==
    /\ adminAnnouncements = <<>>
    /\ hasOrderChanges = FALSE
    /\ savingOrder = FALSE
    /\ saveReq = <<>>
    /\ toast = "none"
    /\ adminFetches = 1
    /\ lastSaved = <<>>
    /\ operatorOrder = <<>>

\* no request in flight, no form submitted, no function called
NoGateReq == [kind |-> "none", password |-> ""]
NoPanelReq == [kind |-> "none", security |-> "unset", current |-> "",
               password |-> "", refresh |-> 0]
NoSubmit == [form |-> "none", current |-> "", password |-> "", confirm |-> ""]
NoCall == [fn |-> "none", a |-> "", b |-> ""]
NoDelete == [pc |-> "none", id |-> 0, media |-> "none"]
NoEdit == [kind |-> "none", id |-> 0, title |-> "", duration |-> 0,
           active |-> FALSE]

\* the gate after its first render: the mount effect has called
\* checkSecurity; the panel, its child, is not rendered
GateMounted ==
    /\ gateLoading = TRUE
    /\ isLocked = FALSE
    /\ isAuthenticated = FALSE
    /\ isSetupMode = FALSE
    /\ verifying = FALSE
    /\ checkPc = "settings"
    /\ gateReq = NoGateReq

\* the settings state of the panel before its fetch has answered has no
\* security_enabled field
PanelUnmounted ==
    /\ panelSecurity = "unset"
    /\ isPasswordSet = FALSE
    /\ showSetupModal = FALSE
    /\ panelPc = "none"
    /\ panelReq = NoPanelReq

InitGate ==
    /\ GateMounted
    /\ PanelUnmounted
    /\ notice = "none"
    /\ lastSubmit = NoSubmit
    /\ rpcCall = NoCall
    /\ rpcResult = FALSE

InitMedia ==
    /\ bucket = {}
    /\ delReq = NoDelete
    /\ editReq = NoEdit

Init ==
    /\ InitStore /\ InitCycler /\ InitEditor /\ InitGate /\ InitMedia
    /\ localAuth = FALSE
    /\ recording = FALSE

InitRecording ==
    /\ InitStore /\ InitCycler /\ InitEditor /\ InitGate /\ InitMedia
    /\ localAuth = FALSE
    /\ recording = TRUE

\* a visit to the settings route with any settings row in the store and the
\* marker of an earlier visit present or not
InitAnySettings ==
    /\ tblAnnouncements = {}
    /\ nextId = 1
    /\ tblSettings \in SettingsRows
    /\ InitCycler /\ InitEditor /\ InitGate /\ InitMedia
    /\ localAuth \in BOOLEAN
    /\ recording = FALSE

\* --------------------------------------------------- cycler actions
\* a render after currentIndex or announcements changed: the cycle effect
\* re-runs
Rerender(list, idx) ==
    LET cyc == CycleEffect(list, idx, timers, timer)
    IN  /\ CanArm(HandlesIn(timers))
        /\ announcements' = list
        /\ currentIndex' = idx
        /\ timers' = cyc.timers
        /\ timer' = cyc.timer

RestartHistory(idx) ==
    /\ cycleStart' = IF recording THEN idx ELSE 0
    /\ cycleFires' = 0
    /\ UNCHANGED recording

KeepHistory == UNCHANGED <<recording, cycleStart, cycleFires>>

\* one more firing of the run; a run that has reached the length of the list
\* starts again
CountFiring ==
    /\ IF ~recording THEN UNCHANGED <<cycleStart, cycleFires>>
       ELSE IF cycleFires >= Len(announcements)
       THEN cycleStart' = currentIndex /\ cycleFires' = 1
       ELSE cycleStart' = cycleStart /\ cycleFires' = cycleFires + 1
    /\ UNCHANGED recording

\* (prev + 1) % announcements.length
AdvanceIndex(prev, len) == (prev + 1) % len

\* the advance timer fires: setCurrentIndex(prev => (prev + 1) % length),
\* with the length of the list the effect was run for
TimerFire ==
    /\ mounted
    /\ CanArm(HandlesIn(timers))
    /\ \E t \in Timeouts :
        LET next == AdvanceIndex(currentIndex, t.len)
            cyc == CycleEffect(announcements, next, timers \ {t}, timer)
        IN  /\ currentIndex' = next
            /\ timers' = cyc.timers
            /\ timer' = cyc.timer
    /\ CountFiring
    /\ UNCHANGED <<storeVars, editorVars, gateVars, mediaVars, editReq, mounted, announcements, loading, refreshInterval,
                   pollInterval, fetchAnn, fetchSet>>

\* the poll interval fires: fetchAnnouncements starts
PollFire ==
    /\ mounted
    /\ Intervals # {}
    /\ fetchAnn + fetchSet < MaxFetches
    /\ fetchAnn' = fetchAnn + 1
    /\ UNCHANGED <<storeVars, editorVars, gateVars, mediaVars, editReq, mounted, announcements, currentIndex, loading,
                   refreshInterval, timers, timer, pollInterval, fetchSet>>
    /\ KeepHistory

\* the announcements query answers with data: setAnnouncements(data || [])
FetchAnnouncementsOk ==
    /\ mounted
    /\ fetchAnn > 0
    /\ Rerender(CyclerQuery(tblAnnouncements), currentIndex)
    /\ RestartHistory(currentIndex)
    /\ fetchAnn' = fetchAnn - 1
    /\ fetchSet' = fetchSet + 1
    /\ UNCHANGED <<storeVars, editorVars, gateVars, mediaVars, editReq, mounted, loading, refreshInterval, pollInterval>>

\* the announcements query answers with an error: the list is kept
FetchAnnouncementsError ==
    /\ mounted
    /\ fetchAnn > 0
    /\ fetchAnn' = fetchAnn - 1
    /\ fetchSet' = fetchSet + 1
    /\ UNCHANGED <<storeVars, editorVars, gateVars, mediaVars, editReq, mounted, announcements, currentIndex, loading,
                   refreshInterval, timers, timer, pollInterval>>
    /\ KeepHistory

\* setRefreshInterval(v): the poll effect re-runs only when v is a new value
SetRefreshInterval(v) ==
    IF v = refreshInterval
    THEN UNCHANGED <<refreshInterval, timers, pollInterval>>
    ELSE LET poll == PollEffect(v, timers, pollInterval)
         IN  /\ CanArm(HandlesIn(timers))
             /\ refreshInterval' = v
             /\ timers' = poll.timers
             /\ pollInterval' = poll.pollInterval

\* the settings query answers with the row
FetchSettingsOk ==
    /\ mounted
    /\ fetchSet > 0
    /\ SetRefreshInterval(tblSettings.refresh_interval)
    /\ loading' = FALSE
    /\ fetchSet' = fetchSet - 1
    /\ UNCHANGED <<storeVars, editorVars, gateVars, mediaVars, editReq, mounted, announcements, currentIndex, timer,
                   fetchAnn>>
    /\ KeepHistory

\* the settings query fails: settings is null
FetchSettingsError ==
    /\ mounted
    /\ fetchSet > 0
    /\ loading' = FALSE
    /\ fetchSet' = fetchSet - 1
    /\ UNCHANGED <<storeVars, editorVars, gateVars, mediaVars, editReq, mounted, announcements, currentIndex,
                   refreshInterval, timers, timer, pollInterval,
                   fetchAnn>>
    /\ KeepHistory

\* setCurrentIndex from a control: nothing happens when the value is unchanged
SetCurrentIndex(idx) ==
    IF idx = currentIndex
    THEN UNCHANGED <<announcements, currentIndex, timers, timer,
                     recording, cycleStart, cycleFires>>
    ELSE Rerender(announcements, idx) /\ RestartHistory(idx)

\* the controls are part of the stage, not of the loader or the empty state
ControlsRendered == View = "stage"

\* (prev - 1 + announcements.length) % announcements.length
PrevIndex(prev, len) == (prev - 1 + len) % len

handlePrev ==
    /\ ControlsRendered
    /\ SetCurrentIndex(PrevIndex(currentIndex, Len(announcements)))
    /\ UNCHANGED <<storeVars, editorVars, gateVars, mediaVars, editReq, mounted, loading, refreshInterval, pollInterval,
                   fetchAnn, fetchSet>>

handleNext ==
    /\ ControlsRendered
    /\ SetCurrentIndex(AdvanceIndex(currentIndex, Len(announcements)))
    /\ UNCHANGED <<storeVars, editorVars, gateVars, mediaVars, editReq, mounted, loading, refreshInterval, pollInterval,
                   fetchAnn, fetchSet>>

\* onClick={() => setCurrentIndex(idx)} of an indicator dot
IndicatorClick ==
    /\ ControlsRendered
    /\ \E idx \in 0..(Len(announcements) - 1) : SetCurrentIndex(idx)
    /\ UNCHANGED <<storeVars, editorVars, gateVars, mediaVars, editReq, mounted, loading, refreshInterval, pollInterval,
                   fetchAnn, fetchSet>>

ManualNavigation == handlePrev \/ handleNext \/ IndicatorClick

\* teardown: both effects' cleanups run and the component's state is gone;
\* answers that arrive later set the state of an unmounted component, which
\* does nothing
Unmount ==
    /\ mounted
    /\ mounted' = FALSE
    /\ timers' = PollCleanup(CycleCleanup(timers, timer), pollInterval)
    /\ timer' = NoHandle
    /\ pollInterval' = NoHandle
    /\ announcements' = <<>>
    /\ currentIndex' = 0
    /\ loading' = TRUE
    /\ refreshInterval' = DefaultRefreshState
    /\ fetchAnn' = 0
    /\ fetchSet' = 0
    /\ RestartHistory(0)
    /\ UNCHANGED <<storeVars, editorVars, gateVars, mediaVars, editReq>>

\* the page is loaded again: a new component instance
Mount ==
    /\ ~mounted
    /\ timers = {}
    /\ mounted' = TRUE
    /\ announcements' = MountedState.announcements
    /\ currentIndex' = MountedState.currentIndex
    /\ loading' = MountedState.loading
    /\ refreshInterval' = MountedState.refreshInterval
    /\ timers' = MountedState.timers
    /\ timer' = MountedState.timer
    /\ pollInterval' = MountedState.pollInterval
    /\ fetchAnn' = 1
    /\ fetchSet' = 0
    /\ RestartHistory(0)
    /\ UNCHANGED <<storeVars, editorVars, gateVars, mediaVars, editReq>>

\* ------------------------------------- the admin's writes, seen by the cycler
\* confirmUpload's insert
AdminUpload ==
    /\ nextId <= MaxItems
    /\ \E d \in Durations :
          tblAnnouncements' = InsertRow(tblAnnouncements, nextId, d)
    /\ nextId' = nextId + 1
    /\ bucket' = bucket \cup {nextId}
    /\ UNCHANGED <<tblSettings, cyclerVars, editorVars, gateVars, editReq, delReq>>

\* toggleActive's update
AdminToggleActive ==
    /\ \E r \in tblAnnouncements :
          tblAnnouncements' = UpdateActive(tblAnnouncements, r.id, ~r.active)
    /\ UNCHANGED <<tblSettings, nextId, cyclerVars, editorVars, gateVars, mediaVars, editReq>>

\* saveOrder's upsert from an editor whose list holds the rows of the table in
\* some order: order_index = idx + 1
Orderings(S) ==
    {o \in [1..Cardinality(S) -> S] : \A i, j \in DOMAIN o : o[i] = o[j] => i = j}

DenseOrder(list) == {[list[i] EXCEPT !.order_index = i] : i \in DOMAIN list}

AdminSaveOrder ==
    /\ \E o \in Orderings(tblAnnouncements) :
          /\ tblAnnouncements' = UpsertRows(tblAnnouncements, DenseOrder(o))
          /\ tblAnnouncements' # tblAnnouncements
    /\ UNCHANGED <<tblSettings, nextId, cyclerVars, editorVars, gateVars, mediaVars, editReq>>

\* saveSettings' upsert
AdminSaveSettings ==
    /\ \E v \in RefreshIntervals :
          /\ v # tblSettings.refresh_interval
          /\ tblSettings' = [tblSettings EXCEPT !.refresh_interval = v]
    /\ UNCHANGED <<tblAnnouncements, nextId, cyclerVars, editorVars, gateVars, mediaVars, editReq>>

CyclerNext ==
    \/ TimerFire
    \/ PollFire
    \/ FetchAnnouncementsOk
    \/ FetchAnnouncementsError
    \/ FetchSettingsOk
    \/ FetchSettingsError
    \/ handlePrev
    \/ handleNext
    \/ IndicatorClick
    \/ Unmount
    \/ Mount
    \/ AdminUpload
    \/ AdminToggleActive
    \/ AdminSaveSettings

SpecCycler == Init /\ [][CyclerNext]_vars

\* the cycler with its history recorded
SpecCycleHistory == InitRecording /\ [][CyclerNext]_vars

\* the cycler's polling against an admin who uploads, hides and reorders
OrderNext ==
    \/ PollFire
    \/ FetchAnnouncementsOk
    \/ FetchSettingsOk
    \/ AdminUpload
    \/ AdminToggleActive
    \/ AdminSaveOrder

SpecCyclerOrder == Init /\ [][OrderNext]_vars

\* ======================================================= Display Cycler claims
ActiveRows == {r \in tblAnnouncements : r.active}

TimeoutFor(h, list, idx) ==
    [h |-> h, kind |-> "timeout",
     delay |-> (IF idx + 1 \in DOMAIN list /\ list[idx + 1].display_duration # 0
                THEN list[idx + 1].display_duration ELSE 10) * 1000,
     len |-> Len(list), idx |-> idx, age |-> 0]

\* C1: with a fixed list of N >= 2 items, every firing of the advance timer
\* sets currentIndex to (currentIndex + 1) mod N, and the N-th consecutive
\* firing of a run (no re-fetch, no control used in between) brings
\* currentIndex back to the value it had before the run's first firing.
C1_CyclicReturn ==
    [][(TimerFire /\ Len(announcements) >= 2) =>
          /\ currentIndex' = (currentIndex + 1) % Len(announcements)
          /\ (cycleFires' = Len(announcements) => currentIndex' = cycleStart')]_vars

\* C2: whenever the cycler's list is non-empty, 0 <= currentIndex < length of
\* the list, also right after a re-fetch that returned a shorter list.
C2_IndexInRange ==
    Len(announcements) > 0 => currentIndex \in 0..(Len(announcements) - 1)

\* C3 as stated: with an empty list no advance timer is armed and the empty
\* state is rendered; with a list of one item no advance timer is armed.
C3_EmptyStateWheneverEmpty ==
    mounted =>
        /\ Len(announcements) = 0 => (Timeouts = {} /\ View = "empty")
        /\ Len(announcements) = 1 => Timeouts = {}

\* C3 amended: with an empty list no advance timer is armed, and the empty
\* state is rendered as soon as loading is false (the loader is rendered while
\* loading is true); with a list of one item no advance timer is armed, so no
\* firing can change currentIndex.
C3_NoTimerBelowTwoItems ==
    mounted =>
        /\ Len(announcements) = 0 =>
              (Timeouts = {} /\ (View = "empty" <=> ~loading))
        /\ Len(announcements) = 1 => (Timeouts = {} /\ ~ENABLED TimerFire)

C3_Witness ==
    /\ mounted /\ ~loading
    /\ Len(announcements) = 1
    /\ Cardinality(tblAnnouncements) >= 2
    /\ Intervals # {}

\* C4: every fetch of the cycler yields exactly the rows with active = true,
\* ordered by order_index ascending, ties by created_at descending.
C4_FetchOrderedByOrderIndex ==
    [][FetchAnnouncementsOk =>
          IdsOf(announcements') =
              IdsOf(OrderByOrderIndexThenCreatedAt(ActiveRows))]_vars

\* C5: a manual navigation that changes currentIndex leaves no timer of the
\* old index armed: the timeout armed before is cancelled, and the only
\* timeout armed afterwards is a new one, armed for the newly selected item
\* with that item's duration (none at all when the list has fewer than two
\* items).
C5_ManualNavigationRearms ==
    [][(ManualNavigation /\ currentIndex' # currentIndex) =>
          /\ Timeouts \cap Timeouts' = {}
          /\ Timeouts' =
                IF Len(announcements) >= 2
                THEN {TimeoutFor(timer', announcements, currentIndex')}
                ELSE {}
          /\ (Len(announcements) >= 2 => timer' # NoHandle)]_vars

C5_Witness ==
    /\ View = "stage"
    /\ Len(announcements) = 3
    /\ currentIndex = 2
    /\ announcements[1].display_duration # announcements[3].display_duration
    /\ Timeouts = {TimeoutFor(timer, announcements, 2)}

\* C6: at most one advance timer and at most one poll timer are armed at any
\* time, each the one its effect holds for its cleanup, and none is armed
\* after teardown.
C6_AtMostOneTimerEach ==
    /\ Cardinality(Timeouts) <= 1
    /\ Cardinality(Intervals) <= 1
    /\ HandlesIn(Timeouts) \subseteq {timer}
    /\ HandlesIn(Intervals) \subseteq {pollInterval}
    /\ ~mounted => timers = {}

C6_Witness ==
    /\ mounted
    /\ refreshInterval = 1
    /\ Cardinality(Intervals) = 1
    /\ Cardinality(Timeouts) = 1
    /\ currentIndex = 1

\* C7: while the loaded refresh interval is greater than zero exactly one poll
\* timer is armed, with period refresh_interval * 60 seconds; while it is zero
\* or negative no poll timer is armed; and a fetch starts only at mount or at
\* a firing of the armed poll timer.
C7_PollFollowsRefreshInterval ==
    [][/\ mounted' =>
            Intervals' =
                IF refreshInterval' > 0
                THEN {[h |-> pollInterval', kind |-> "interval",
                       delay |-> refreshInterval' * 60 * 1000, len |-> 0,
                       idx |-> 0, age |-> 0]}
                ELSE {}
       /\ fetchAnn' > fetchAnn =>
            \/ ~mounted /\ mounted'
            \/ refreshInterval > 0 /\ Intervals # {}]_vars

C7_Witness ==
    /\ mounted
    /\ ~loading
    /\ refreshInterval = 0
    /\ tblSettings.refresh_interval = 0
    /\ Intervals = {}
    /\ fetchAnn = 0 /\ fetchSet = 0
    /\ Len(announcements) >= 2

\* ===================================================== Admin List Editor
\* a row as the editor's list holds it: order_index is never read from a list
\* item (saveOrder overwrites it), so the list item is modelled without it
ListItem(r) ==
    [id |-> r.id, created_at |-> r.created_at, active |-> r.active,
     display_duration |-> r.display_duration, title |-> r.title]

\* a query that sorts by created_at only
EditorQueryByCreatedAt(tbl) ==
    LET rows == OrderByCreatedAtDesc(tbl)
    IN  [i \in DOMAIN rows |-> ListItem(rows[i])]

\* the rows the editor's query returns
EditorQuery(tbl) ==
    LET rows == OrderByOrderIndexThenCreatedAt(tbl)
    IN  [i \in DOMAIN rows |-> ListItem(rows[i])]

\* a call of fetchAnnouncements may be started: the bound on calls in flight
\* keeps one place for the call a saveOrder in flight makes on success
CanFetch ==
    adminFetches + (IF savingOrder THEN 1 ELSE 0)
                 + (IF delReq.pc \in {"storage", "record"} THEN 1 ELSE 0)
                 + (IF editReq.kind # "none" THEN 1 ELSE 0)
        < MaxAdminFetches

\* the announcements query of fetchAnnouncements answers with data
AdminFetchOk ==
    /\ adminFetches > 0
    /\ adminAnnouncements' = EditorQuery(tblAnnouncements)
    /\ adminFetches' = adminFetches - 1
    /\ UNCHANGED <<storeVars, cyclerVars, gateVars, mediaVars, editReq, hasOrderChanges, savingOrder, saveReq,
                   toast, lastSaved, operatorOrder>>

\* the announcements query answers without data: the list is kept
AdminFetchError ==
    /\ adminFetches > 0
    /\ adminFetches' = adminFetches - 1
    /\ UNCHANGED <<storeVars, cyclerVars, gateVars, mediaVars, editReq, adminAnnouncements, hasOrderChanges,
                   savingOrder, saveReq, toast, lastSaved, operatorOrder>>

\* confirmUpload: the file is stored under a fresh name (the model names it
\* by the id of its row), the row inserted, the list re-fetched
confirmUploadWith(duration) ==
    /\ nextId <= MaxItems
    /\ CanFetch
    /\ tblAnnouncements' = InsertRow(tblAnnouncements, nextId, duration)
    /\ nextId' = nextId + 1
    /\ adminFetches' = adminFetches + 1
    /\ lastSaved' = <<>>
    /\ UNCHANGED operatorOrder
    /\ bucket' = bucket \cup {nextId}
    /\ UNCHANGED <<tblSettings, cyclerVars, gateVars, editReq, delReq, adminAnnouncements,
                   hasOrderChanges, savingOrder, saveReq, toast>>

\* an upload with the duration field of the form left at its initial state
confirmUpload == confirmUploadWith(DurationFormState)

\* arrayMove(items, from, to) of @dnd-kit/sortable, positions from 1
RemoveAt(items, from) ==
    [i \in 1..(Len(items) - 1) |-> IF i < from THEN items[i] ELSE items[i + 1]]

InsertAt(items, to, x) ==
    [i \in 1..(Len(items) + 1) |->
        IF i < to THEN items[i] ELSE IF i = to THEN x ELSE items[i - 1]]

arrayMove(items, from, to) == InsertAt(RemoveAt(items, from), to, items[from])

\* items.findIndex(item => item.id === id), positions from 1
findIndex(items, id) == CHOOSE i \in DOMAIN items : items[i].id = id

\* an update that leaves the flag as it is
KeepOrderChanges == UNCHANGED hasOrderChanges

\* setHasOrderChanges(true)
MarkOrderChanges == hasOrderChanges' = TRUE

\* handleDragEnd with an item dropped over another one
handleDragEnd ==
    /\ \E a, o \in DOMAIN adminAnnouncements :
          /\ adminAnnouncements[a].id # adminAnnouncements[o].id
          /\ adminAnnouncements' =
                arrayMove(adminAnnouncements,
                          findIndex(adminAnnouncements, adminAnnouncements[a].id),
                          findIndex(adminAnnouncements, adminAnnouncements[o].id))
    /\ MarkOrderChanges
    /\ operatorOrder' = IdsOf(adminAnnouncements')
    /\ UNCHANGED <<storeVars, cyclerVars, gateVars, mediaVars, editReq, savingOrder, saveReq, toast,
                   adminFetches, lastSaved>>

\* an exchange that copies one way only
SwapCopy(items, i, j) == [items EXCEPT ![i] = items[j]]

\* [a[index], a[targetIndex]] = [a[targetIndex], a[index]]
Swap(items, i, j) == [items EXCEPT ![i] = items[j], ![j] = items[i]]

\* moveAnnouncement(index, direction) as a function of the list and the flag,
\* index from 1: the two early returns, then the exchange and the flag set
MoveResult(items, dirty, index, direction) ==
    IF direction = "up" /\ index = 1
    THEN [items |-> items, dirty |-> dirty]
    ELSE IF direction = "down" /\ index = Len(items)
    THEN [items |-> items, dirty |-> dirty]
    ELSE LET targetIndex == IF direction = "up" THEN index - 1 ELSE index + 1
         IN  [items |-> Swap(items, index, targetIndex), dirty |-> TRUE]

\* moveAnnouncement(index, direction) from the buttons of a row
moveAnnouncement ==
    /\ \E index \in DOMAIN adminAnnouncements : \E direction \in {"up", "down"} :
          LET res == MoveResult(adminAnnouncements, hasOrderChanges, index, direction)
          IN  /\ adminAnnouncements' = res.items
              /\ hasOrderChanges' = res.dirty
              /\ operatorOrder' = IF res.items = adminAnnouncements
                                  THEN operatorOrder ELSE IdsOf(res.items)
    /\ UNCHANGED <<storeVars, cyclerVars, gateVars, mediaVars, editReq, savingOrder, saveReq, toast,
                   adminFetches, lastSaved>>

\* the updates numbered as the positions are in the source, from 0
OrderUpdatesFromZero(items) ==
    [i \in DOMAIN items |->
        [Row(items[i].id, items[i].created_at, items[i].active, i - 1,
             items[i].display_duration) EXCEPT !.title = items[i].title]]

\* announcements.map((item, idx) => ({ ...item, order_index: idx + 1 }));
\* the position i of a sequence is idx + 1
OrderUpdates(items) ==
    [i \in DOMAIN items |->
        [Row(items[i].id, items[i].created_at, items[i].active, i,
             items[i].display_duration) EXCEPT !.title = items[i].title]]

\* saveOrder up to its await: the Save Order button is shown while
\* hasOrderChanges and disabled while savingOrder
saveOrderStart ==
    /\ hasOrderChanges
    /\ ~savingOrder
    /\ adminFetches < MaxAdminFetches
    /\ savingOrder' = TRUE
    /\ saveReq' = OrderUpdates(adminAnnouncements)
    /\ UNCHANGED <<storeVars, cyclerVars, gateVars, mediaVars, editReq, adminAnnouncements, hasOrderChanges,
                   toast, adminFetches, lastSaved, operatorOrder>>

\* the upsert succeeds
saveOrderOk ==
    /\ savingOrder
    /\ tblAnnouncements' = UpsertRows(tblAnnouncements,
                                      {saveReq[i] : i \in DOMAIN saveReq})
    /\ hasOrderChanges' = FALSE
    /\ adminFetches' = adminFetches + 1
    /\ savingOrder' = FALSE
    /\ saveReq' = <<>>
    /\ toast' = "Order saved successfully"
    /\ lastSaved' = IdsOf(saveReq)
    /\ UNCHANGED operatorOrder
    /\ UNCHANGED <<tblSettings, nextId, cyclerVars, gateVars, mediaVars, editReq, adminAnnouncements>>

\* a catch block that gives the unsaved order up: the flag is cleared and the
\* list re-fetched
saveOrderErrorRefetch ==
    /\ savingOrder
    /\ savingOrder' = FALSE
    /\ saveReq' = <<>>
    /\ toast' = "Failed to save order"
    /\ hasOrderChanges' = FALSE
    /\ adminFetches' = adminFetches + 1
    /\ UNCHANGED <<storeVars, cyclerVars, gateVars, mediaVars, editReq, adminAnnouncements, lastSaved, operatorOrder>>

\* the upsert fails: the catch block, then finally
saveOrderError ==
    /\ savingOrder
    /\ savingOrder' = FALSE
    /\ saveReq' = <<>>
    /\ toast' = "Failed to save order"
    /\ UNCHANGED <<storeVars, cyclerVars, gateVars, mediaVars, editReq, adminAnnouncements, hasOrderChanges,
                   adminFetches, lastSaved, operatorOrder>>

EditorNext ==
    \/ AdminFetchOk
    \/ AdminFetchError
    \/ confirmUpload
    \/ handleDragEnd
    \/ moveAnnouncement
    \/ saveOrderStart
    \/ saveOrderOk
    \/ saveOrderError

SpecEditor == Init /\ [][EditorNext]_vars

\* ================================================== Admin List Editor claims
StoredOrderIndex(id) == (CHOOSE r \in tblAnnouncements : r.id = id).order_index

\* C8: saveOrder sends, for the item at each position of the local list, the
\* order_index position + 1 (positions from 0), and a successful save writes
\* exactly these: the written values are 1..N, without gap or duplicate, in
\* the order of the list that was saved.
C8_SaveWritesDenseOrder ==
    [][/\ saveOrderStart =>
            /\ IdsOf(saveReq') = IdsOf(adminAnnouncements)
            /\ \A i \in DOMAIN saveReq' : saveReq'[i].order_index = i
       /\ saveOrderOk =>
            /\ \A i \in DOMAIN saveReq :
                  \E r \in tblAnnouncements' :
                      r.id = saveReq[i].id /\ r.order_index = i
            /\ {r.order_index : r \in {q \in tblAnnouncements' :
                    \E i \in DOMAIN saveReq : q.id = saveReq[i].id}}
                  = 1..Len(saveReq)]_vars

C8_Witness ==
    /\ toast = "Order saved successfully"
    /\ Cardinality(tblAnnouncements) = 3
    /\ StoredOrderIndex(1) = 2
    /\ StoredOrderIndex(2) = 1
    /\ StoredOrderIndex(3) = 3

\* C9: a drag move or an up/down move that changes the local order sets
\* hasOrderChanges and writes nothing to the store, and the order_index of a
\* row that exists in the store changes only in the step in which a saveOrder
\* in flight succeeds.
C9_ReorderOnlyMarksDirty ==
    [][/\ ((handleDragEnd \/ moveAnnouncement)
              /\ adminAnnouncements' # adminAnnouncements) =>
            (hasOrderChanges' /\ tblAnnouncements' = tblAnnouncements)
       /\ (\E r \in tblAnnouncements : \E q \in tblAnnouncements' :
              r.id = q.id /\ r.order_index # q.order_index) =>
            (savingOrder /\ ~savingOrder' /\ toast' = "Order saved successfully")]_vars

C9_Witness ==
    /\ hasOrderChanges
    /\ toast = "none"
    /\ Len(adminAnnouncements) = 3
    /\ adminAnnouncements # EditorQuery(tblAnnouncements)
    /\ \A r \in tblAnnouncements : r.order_index = 0

\* C10: when the upsert of saveOrder fails, hasOrderChanges stays set, the
\* local list and the store are left as they are, no fetch is started, and
\* savingOrder is cleared, so that the Save Order button is shown and enabled.
C10_FailedSaveKeepsDirty ==
    [][saveOrderError =>
          /\ hasOrderChanges /\ hasOrderChanges'
          /\ adminAnnouncements' = adminAnnouncements
          /\ tblAnnouncements' = tblAnnouncements
          /\ adminFetches' = adminFetches
          /\ ~savingOrder']_vars

C10_Witness ==
    /\ toast = "Failed to save order"
    /\ hasOrderChanges
    /\ ~savingOrder
    /\ Len(adminAnnouncements) >= 2
    /\ adminAnnouncements # EditorQuery(tblAnnouncements)

\* the ids of a list that are in the set S, in the order of the list
IdsAmong(list, S) == SelectSeq(IdsOf(list), LAMBDA id : id \in S)

\* C11: a successful saveOrder clears hasOrderChanges and starts a fetch; when
\* that fetch, or a later one, answers and nothing but the save has written
\* to the table since, the fetched list holds the saved items in the order of
\* the list that was saved, and it is that list item for item when the saved
\* list held every row of the table.
C11_RefetchConvergesToSavedOrder ==
    [][/\ saveOrderOk =>
            (~hasOrderChanges' /\ adminFetches' = adminFetches + 1)
       /\ (AdminFetchOk /\ lastSaved # <<>>) =>
            /\ IdsAmong(adminAnnouncements', {lastSaved[i] : i \in DOMAIN lastSaved})
                  = lastSaved
            /\ Len(lastSaved) = Cardinality(tblAnnouncements) =>
                  IdsOf(adminAnnouncements') = lastSaved]_vars

C11_Witness ==
    /\ lastSaved = <<2, 3, 1>>
    /\ IdsOf(adminAnnouncements) = lastSaved
    /\ ~hasOrderChanges
    /\ adminFetches = 0
    /\ toast = "Order saved successfully"

\* ================================================ the password functions
\* rpc('is_password_set')
RpcIsPasswordSet ==
    /\ rpcCall' = [fn |-> "is_password_set", a |-> "", b |-> ""]
    /\ rpcResult' = is_password_set(tblSettings)
    /\ UNCHANGED <<storeVars, cyclerVars, editorVars, mediaVars, editReq, gateLoading,
                   isLocked, isAuthenticated, isSetupMode, verifying, localAuth,
                   checkPc, gateReq, notice, lastSubmit, panelSecurity,
                   isPasswordSet, showSetupModal, panelPc, panelReq>>

\* rpc('verify_admin_password', { attempt })
RpcVerify ==
    /\ \E attempt \in Passwords :
          /\ rpcCall' = [fn |-> "verify_admin_password", a |-> attempt, b |-> ""]
          /\ rpcResult' = verify_admin_password(tblSettings, attempt)
    /\ UNCHANGED <<storeVars, cyclerVars, editorVars, mediaVars, editReq, gateLoading,
                   isLocked, isAuthenticated, isSetupMode, verifying, localAuth,
                   checkPc, gateReq, notice, lastSubmit, panelSecurity,
                   isPasswordSet, showSetupModal, panelPc, panelReq>>

\* rpc('change_admin_password', { current_password, new_password })
RpcChange ==
    /\ \E current_password, new_password \in Passwords :
          LET r == change_admin_password(tblSettings, current_password,
                                         new_password)
          IN  /\ rpcCall' = [fn |-> "change_admin_password",
                             a |-> current_password, b |-> new_password]
              /\ rpcResult' = r.result
              /\ tblSettings' = r.row
    /\ UNCHANGED <<tblAnnouncements, nextId, cyclerVars, editorVars, mediaVars, editReq,
                   gateLoading, isLocked, isAuthenticated, isSetupMode,
                   verifying, localAuth, checkPc, gateReq, notice, lastSubmit,
                   panelSecurity, isPasswordSet, showSetupModal, panelPc,
                   panelReq>>

RpcNext ==
    \/ RpcIsPasswordSet
    \/ RpcVerify
    \/ RpcChange

SpecRpc == InitAnySettings /\ [][RpcNext]_vars

\* ============================================ password function claims
\* C18: verify_admin_password(attempt) returns true when attempt equals the
\* stored password and false for every other string; it returns false for
\* every attempt when no password is stored; what it returns is a boolean and
\* the call leaves the settings row and the announcements as they are.
C18_VerifyIsEquality ==
    [][RpcVerify =>
          /\ rpcResult' \in BOOLEAN
          /\ rpcResult' = (tblSettings.admin_password # "NULL"
                           /\ tblSettings.admin_password = rpcCall'.a)
          /\ tblSettings' = tblSettings
          /\ tblAnnouncements' = tblAnnouncements]_vars

C18_Witness ==
    /\ rpcCall.fn = "verify_admin_password"
    /\ rpcCall.a = "a"
    /\ rpcResult = TRUE
    /\ tblSettings.admin_password = "a"

\* C19: change_admin_password(current, new) returns false and leaves the
\* stored password as it is when current is not the stored password or no
\* password is stored; otherwise it returns true and the stored password is
\* new; every call returns one of the two values, none fails.
C19_ChangeNeedsCurrent ==
    [][RpcChange =>
          LET stored == tblSettings.admin_password
              matches == stored # "NULL" /\ stored = rpcCall'.a
          IN  /\ rpcResult' \in BOOLEAN
              /\ ~matches => (rpcResult' = FALSE /\ tblSettings' = tblSettings)
              /\ matches =>
                    /\ rpcResult' = TRUE
                    /\ tblSettings'.admin_password = rpcCall'.b
                    /\ tblSettings'.security_enabled = tblSettings.security_enabled]_vars

C19_Witness ==
    /\ rpcCall = [fn |-> "change_admin_password", a |-> "a", b |-> "b"]
    /\ rpcResult = TRUE
    /\ tblSettings.admin_password = "b"

\* ======================================================== the Auth Gate
gateState == <<gateLoading, isLocked, isAuthenticated, isSetupMode, verifying,
               checkPc, gateReq>>
panelVars == <<panelSecurity, isPasswordSet, showSetupModal, panelPc, panelReq>>
rpcVars == <<rpcCall, rpcResult>>
outsideGate == <<tblAnnouncements, nextId, cyclerVars, editorVars, mediaVars, editReq,
                 rpcVars>>

\* what the gate renders: the loader, the Setup Security screen, the
\* Restricted Access screen, or its children
GateState ==
    IF gateLoading THEN "loading"
    ELSE IF isLocked /\ isSetupMode THEN "setupRequired"
    ELSE IF isLocked THEN "locked"
    ELSE "unlocked"

\* the gate renders its children: the panel mounts, and the mount effect of
\* the panel calls its fetch
PanelMount ==
    /\ panelSecurity' = "unset"
    /\ isPasswordSet' = FALSE
    /\ showSetupModal' = FALSE
    /\ panelPc' = "settings"
    /\ panelReq' = NoPanelReq

\* checkSecurity, step 1: the settings read answers with the row
CheckSettingsOk ==
    /\ checkPc = "settings"
    /\ IF ~tblSettings.security_enabled
       THEN /\ isLocked' = FALSE
            /\ gateLoading' = FALSE
            /\ checkPc' = "done"
            /\ PanelMount
       ELSE /\ checkPc' = "rpc"
            /\ UNCHANGED <<isLocked, gateLoading, panelVars>>
    /\ UNCHANGED <<tblSettings, outsideGate, isAuthenticated, isSetupMode,
                   verifying, gateReq, localAuth, notice, lastSubmit>>

\* step 1 answers with an error: catch, then finally
CheckSettingsError ==
    /\ checkPc = "settings"
    /\ isLocked' = TRUE
    /\ gateLoading' = FALSE
    /\ checkPc' = "done"
    /\ UNCHANGED <<tblSettings, outsideGate, panelVars, isAuthenticated,
                   isSetupMode, verifying, gateReq, localAuth, notice,
                   lastSubmit>>

\* a session check that does not read the marker
LocalSessionLocked ==
    /\ isLocked' = TRUE
    /\ isAuthenticated' = FALSE
    /\ UNCHANGED panelVars
    /\ gateLoading' = FALSE
    /\ checkPc' = "done"

\* step 3: localStorage.getItem(IS_AUTHENTICATED_KEY), then finally
LocalSessionCheck ==
    /\ IF localAuth
       THEN /\ isLocked' = FALSE
            /\ isAuthenticated' = TRUE
            /\ PanelMount
       ELSE /\ isLocked' = TRUE
            /\ isAuthenticated' = FALSE
            /\ UNCHANGED panelVars
    /\ gateLoading' = FALSE
    /\ checkPc' = "done"

\* step 2: is_password_set answers
CheckRpcOk ==
    /\ checkPc = "rpc"
    /\ IF is_password_set(tblSettings) = FALSE
       THEN /\ isLocked' = TRUE
            /\ isSetupMode' = TRUE
            /\ gateLoading' = FALSE
            /\ checkPc' = "done"
            /\ UNCHANGED <<isAuthenticated, panelVars>>
       ELSE /\ LocalSessionCheck
            /\ UNCHANGED isSetupMode
    /\ UNCHANGED <<tblSettings, outsideGate, verifying, gateReq, localAuth,
                   notice, lastSubmit>>

\* step 2 answers with an error: the data is null, a password is assumed set
CheckRpcError ==
    /\ checkPc = "rpc"
    /\ LocalSessionCheck
    /\ UNCHANGED <<tblSettings, outsideGate, isSetupMode, verifying, gateReq,
                   localAuth, notice, lastSubmit>>

\* the form of the Restricted Access screen is submitted
handleLogin ==
    /\ GateState = "locked"
    /\ ~verifying
    /\ \E p \in Passwords :
          /\ lastSubmit' = [form |-> "login", current |-> "", password |-> p,
                            confirm |-> ""]
          /\ IF p = ""
             THEN UNCHANGED <<verifying, gateReq>>
             ELSE /\ verifying' = TRUE
                  /\ gateReq' = [kind |-> "login", password |-> p]
    /\ UNCHANGED <<tblSettings, outsideGate, panelVars, gateLoading, isLocked,
                   isAuthenticated, isSetupMode, checkPc, localAuth, notice>>

\* a login that lets every answer of the rpc in
LoginAnswerAny ==
    /\ gateReq.kind = "login"
    /\ localAuth' = TRUE
    /\ isLocked' = FALSE
    /\ isAuthenticated' = TRUE
    /\ notice' = "Access Granted"
    /\ PanelMount
    /\ verifying' = FALSE
    /\ gateReq' = NoGateReq
    /\ UNCHANGED <<tblSettings, outsideGate, gateLoading, isSetupMode, checkPc,
                   lastSubmit>>

\* verify_admin_password answers
LoginAnswer ==
    /\ gateReq.kind = "login"
    /\ IF verify_admin_password(tblSettings, gateReq.password)
       THEN /\ localAuth' = TRUE
            /\ isLocked' = FALSE
            /\ isAuthenticated' = TRUE
            /\ notice' = "Access Granted"
            /\ PanelMount
       ELSE /\ notice' = "Incorrect Password"
            /\ UNCHANGED <<localAuth, isLocked, isAuthenticated, panelVars>>
    /\ verifying' = FALSE
    /\ gateReq' = NoGateReq
    /\ UNCHANGED <<tblSettings, outsideGate, gateLoading, isSetupMode, checkPc,
                   lastSubmit>>

\* the rpc of handleLogin answers with an error
LoginError ==
    /\ gateReq.kind = "login"
    /\ notice' = "Login Failed"
    /\ verifying' = FALSE
    /\ gateReq' = NoGateReq
    /\ UNCHANGED <<tblSettings, outsideGate, panelVars, gateLoading, isLocked,
                   isAuthenticated, isSetupMode, checkPc, localAuth, lastSubmit>>

\* a check of the two fields that lets an empty password through
SetupRejectedOnMismatch(p, c) == p # c

\* !password || password !== confirmPassword
SetupRejected(p, c) == p = "" \/ p # c

\* the form of the Setup Security screen is submitted
handleSetup ==
    /\ GateState = "setupRequired"
    /\ ~verifying
    /\ \E p, c \in Passwords :
          /\ lastSubmit' = [form |-> "gateSetup", current |-> "",
                            password |-> p, confirm |-> c]
          /\ IF SetupRejected(p, c)
             THEN /\ notice' = "Passwords do not match"
                  /\ UNCHANGED <<verifying, gateReq>>
             ELSE /\ verifying' = TRUE
                  /\ gateReq' = [kind |-> "setup", password |-> p]
                  /\ UNCHANGED notice
    /\ UNCHANGED <<tblSettings, outsideGate, panelVars, gateLoading, isLocked,
                   isAuthenticated, isSetupMode, checkPc, localAuth>>

\* the update of handleSetup succeeds: .update({ admin_password: password })
SetupOk ==
    /\ gateReq.kind = "setup"
    /\ tblSettings' = [tblSettings EXCEPT !.admin_password = gateReq.password]
    /\ localAuth' = TRUE
    /\ notice' = "Security Configured"
    /\ isLocked' = FALSE
    /\ isAuthenticated' = TRUE
    /\ PanelMount
    /\ verifying' = FALSE
    /\ gateReq' = NoGateReq
    /\ UNCHANGED <<outsideGate, gateLoading, isSetupMode, checkPc, lastSubmit>>

\* the update of handleSetup fails
SetupError ==
    /\ gateReq.kind = "setup"
    /\ notice' = "Failed to set password"
    /\ verifying' = FALSE
    /\ gateReq' = NoGateReq
    /\ UNCHANGED <<tblSettings, outsideGate, panelVars, gateLoading, isLocked,
                   isAuthenticated, isSetupMode, checkPc, localAuth, lastSubmit>>

\* --------------------------------- the security part of the settings panel
\* the panel is the child the gate renders when it is not locked
PanelShown == GateState = "unlocked"

\* the settings read of the panel's fetch answers with the row
PanelSettingsOk ==
    /\ PanelShown
    /\ panelPc = "settings"
    /\ panelSecurity' = IF tblSettings.security_enabled THEN "on" ELSE "off"
    /\ panelPc' = "rpc"
    /\ UNCHANGED <<tblSettings, outsideGate, gateState, localAuth, notice,
                   lastSubmit, isPasswordSet, showSetupModal, panelReq>>

\* it answers without data: the settings state is kept
PanelSettingsError ==
    /\ PanelShown
    /\ panelPc = "settings"
    /\ panelPc' = "rpc"
    /\ UNCHANGED <<tblSettings, outsideGate, gateState, localAuth, notice,
                   lastSubmit, panelSecurity, isPasswordSet, showSetupModal,
                   panelReq>>

\* is_password_set answers: setIsPasswordSet(!!hasPass)
PanelRpcOk ==
    /\ PanelShown
    /\ panelPc = "rpc"
    /\ isPasswordSet' = is_password_set(tblSettings)
    /\ panelPc' = "idle"
    /\ UNCHANGED <<tblSettings, outsideGate, gateState, localAuth, notice,
                   lastSubmit, panelSecurity, showSetupModal, panelReq>>

\* it answers with an error: hasPass is null
PanelRpcError ==
    /\ PanelShown
    /\ panelPc = "rpc"
    /\ isPasswordSet' = FALSE
    /\ panelPc' = "idle"
    /\ UNCHANGED <<tblSettings, outsideGate, gateState, localAuth, notice,
                   lastSubmit, panelSecurity, showSetupModal, panelReq>>

\* a switch that turns protection on whether or not a password is set
handleToggleSecurityUnchecked ==
    /\ PanelShown
    /\ ~showSetupModal
    /\ panelSecurity' = IF panelSecurity # "on" THEN "on" ELSE "off"
    /\ notice' = "Click Save to apply."
    /\ UNCHANGED <<tblSettings, outsideGate, gateState, localAuth, lastSubmit,
                   isPasswordSet, panelPc, panelReq, showSetupModal>>

\* the Password Protection switch: onCheckedChange hands over the negation
\* of settings.security_enabled || false
handleToggleSecurity ==
    /\ PanelShown
    /\ ~showSetupModal
    /\ LET checked == panelSecurity # "on"
       IN  IF checked
           THEN IF isPasswordSet
                THEN /\ panelSecurity' = "on"
                     /\ notice' = "Password protection enabled. Click Save to apply."
                     /\ UNCHANGED showSetupModal
                ELSE /\ showSetupModal' = TRUE
                     /\ UNCHANGED <<panelSecurity, notice>>
           ELSE /\ panelSecurity' = "off"
                /\ notice' = "Password protection disabled. Click Save to apply."
                /\ UNCHANGED showSetupModal
    /\ UNCHANGED <<tblSettings, outsideGate, gateState, localAuth, lastSubmit,
                   isPasswordSet, panelPc, panelReq>>

\* the Cancel button of the setup modal
CancelSetupModal ==
    /\ PanelShown
    /\ showSetupModal
    /\ panelReq.kind = "none"
    /\ showSetupModal' = FALSE
    /\ UNCHANGED <<tblSettings, outsideGate, gateState, localAuth, notice,
                   lastSubmit, panelSecurity, isPasswordSet, panelPc, panelReq>>

\* an upsert that replaces the row by the payload: the columns the payload does
\* not name go back to their defaults
SavePayloadReplaces(row, req) ==
    [refresh_interval |-> req.refresh,
     security_enabled |-> (req.security = "on"),
     admin_password |-> Null]

\* .upsert(payload) on the existing row id = 1: the columns of the payload are
\* written, the others kept; a field that is undefined is not in the payload
SavePayload(row, req) ==
    IF req.security = "unset"
    THEN [row EXCEPT !.refresh_interval = req.refresh]
    ELSE [row EXCEPT !.refresh_interval = req.refresh,
                     !.security_enabled = (req.security = "on")]

\* saveSettings up to its await: the payload carries settings.security_enabled
\* and the refresh interval the form holds (default_duration, which nothing
\* in the model reads, is left out of the row)
saveSettings ==
    /\ PanelShown
    /\ ~showSetupModal
    /\ panelReq.kind = "none"
    /\ \E v \in RefreshIntervals :
          panelReq' = [kind |-> "save", security |-> panelSecurity,
                       current |-> "", password |-> "", refresh |-> v]
    /\ UNCHANGED <<tblSettings, outsideGate, gateState, localAuth, notice,
                   lastSubmit, panelSecurity, isPasswordSet, showSetupModal,
                   panelPc>>

\* the upsert succeeds; a field that is undefined is not part of the payload
saveSettingsOk ==
    /\ panelReq.kind = "save"
    /\ tblSettings' = SavePayload(tblSettings, panelReq)
    /\ notice' = "Settings saved successfully"
    /\ panelReq' = NoPanelReq
    /\ UNCHANGED <<outsideGate, gateState, localAuth, lastSubmit, panelSecurity,
                   isPasswordSet, showSetupModal, panelPc>>

saveSettingsError ==
    /\ panelReq.kind = "save"
    /\ notice' = "Failed to save settings"
    /\ panelReq' = NoPanelReq
    /\ UNCHANGED <<tblSettings, outsideGate, gateState, localAuth, lastSubmit,
                   panelSecurity, isPasswordSet, showSetupModal, panelPc>>

\* the Set Password button of the setup modal
handleSetupPassword ==
    /\ PanelShown
    /\ showSetupModal
    /\ panelReq.kind = "none"
    /\ \E p, c \in Passwords :
          /\ lastSubmit' = [form |-> "panelSetup", current |-> "",
                            password |-> p, confirm |-> c]
          /\ IF p # c
             THEN /\ notice' = "Passwords do not match"
                  /\ UNCHANGED panelReq
             ELSE IF p = ""
             THEN UNCHANGED <<notice, panelReq>>
             ELSE /\ panelReq' = [kind |-> "setup", security |-> "on",
                                  current |-> "", password |-> p, refresh |-> 0]
                  /\ UNCHANGED notice
    /\ UNCHANGED <<tblSettings, outsideGate, gateState, localAuth,
                   panelSecurity, isPasswordSet, showSetupModal, panelPc>>

\* its update succeeds:
\* .update({ admin_password: setupPassword, security_enabled: true })
PanelSetupOk ==
    /\ panelReq.kind = "setup"
    /\ tblSettings' = [tblSettings EXCEPT !.admin_password = panelReq.password,
                                          !.security_enabled = TRUE]
    /\ notice' = "Security enabled and password set"
    /\ panelSecurity' = "on"
    /\ isPasswordSet' = TRUE
    /\ showSetupModal' = FALSE
    /\ panelReq' = NoPanelReq
    /\ UNCHANGED <<outsideGate, gateState, localAuth, lastSubmit, panelPc>>

PanelSetupError ==
    /\ panelReq.kind = "setup"
    /\ notice' = "Failed to setup security"
    /\ panelReq' = NoPanelReq
    /\ UNCHANGED <<tblSettings, outsideGate, gateState, localAuth, lastSubmit,
                   panelSecurity, isPasswordSet, showSetupModal, panelPc>>

\* the Update Password button, rendered while settings.security_enabled
handleChangePassword ==
    /\ PanelShown
    /\ ~showSetupModal
    /\ panelSecurity = "on"
    /\ panelReq.kind = "none"
    /\ \E old, new, c \in Passwords :
          /\ lastSubmit' = [form |-> "change", current |-> old,
                            password |-> new, confirm |-> c]
          /\ IF new # c
             THEN /\ notice' = "New passwords do not match"
                  /\ UNCHANGED panelReq
             ELSE IF old = "" \/ new = ""
             THEN /\ notice' = "All fields are required"
                  /\ UNCHANGED panelReq
             ELSE /\ panelReq' = [kind |-> "change", security |-> "unset",
                                  current |-> old, password |-> new, refresh |-> 0]
                  /\ UNCHANGED notice
    /\ UNCHANGED <<tblSettings, outsideGate, gateState, localAuth,
                   panelSecurity, isPasswordSet, showSetupModal, panelPc>>

\* change_admin_password answers
ChangeAnswer ==
    /\ panelReq.kind = "change"
    /\ LET r == change_admin_password(tblSettings, panelReq.current,
                                      panelReq.password)
       IN  /\ tblSettings' = r.row
           /\ notice' = IF r.result THEN "Password updated successfully"
                        ELSE "Incorrect old password"
    /\ panelReq' = NoPanelReq
    /\ UNCHANGED <<outsideGate, gateState, localAuth, lastSubmit, panelSecurity,
                   isPasswordSet, showSetupModal, panelPc>>

ChangeError ==
    /\ panelReq.kind = "change"
    /\ notice' = "Failed to update password"
    /\ panelReq' = NoPanelReq
    /\ UNCHANGED <<tblSettings, outsideGate, gateState, localAuth, lastSubmit,
                   panelSecurity, isPasswordSet, showSetupModal, panelPc>>

\* window.location.reload(): the page is loaded again, the gate mounts and
\* its mount effect calls checkSecurity; answers to requests of the page
\* that was left are not delivered
PageLoad ==
    /\ gateLoading' = TRUE
    /\ isLocked' = FALSE
    /\ isAuthenticated' = FALSE
    /\ isSetupMode' = FALSE
    /\ verifying' = FALSE
    /\ checkPc' = "settings"
    /\ gateReq' = NoGateReq
    /\ panelSecurity' = "unset"
    /\ isPasswordSet' = FALSE
    /\ showSetupModal' = FALSE
    /\ panelPc' = "none"
    /\ panelReq' = NoPanelReq
    /\ notice' = "none"

\* the Logout button of the confirmation dialog has been clicked
LogoutSubmit == [form |-> "logout", current |-> "", password |-> "",
                 confirm |-> ""]

\* a handler that reloads without touching the marker
ReloadOnly ==
    /\ PanelShown
    /\ PageLoad
    /\ lastSubmit' = LogoutSubmit
    /\ UNCHANGED <<tblSettings, outsideGate, localAuth>>

\* handleLogout: localStorage.removeItem('display_board_auth'), then reload
handleLogout ==
    /\ PanelShown
    /\ localAuth' = FALSE
    /\ PageLoad
    /\ lastSubmit' = LogoutSubmit
    /\ UNCHANGED <<tblSettings, outsideGate>>

\* the operator loads the settings route again
Revisit ==
    /\ ~gateLoading
    /\ PageLoad
    /\ lastSubmit' = NoSubmit
    /\ UNCHANGED <<tblSettings, outsideGate, localAuth>>

GateNext ==
    \/ CheckSettingsOk
    \/ CheckSettingsError
    \/ CheckRpcOk
    \/ CheckRpcError
    \/ handleLogin
    \/ LoginAnswer
    \/ LoginError
    \/ handleSetup
    \/ SetupOk
    \/ SetupError
    \/ PanelSettingsOk
    \/ PanelSettingsError
    \/ PanelRpcOk
    \/ PanelRpcError
    \/ handleToggleSecurity
    \/ CancelSetupModal
    \/ saveSettings
    \/ saveSettingsOk
    \/ saveSettingsError
    \/ handleSetupPassword
    \/ PanelSetupOk
    \/ PanelSetupError
    \/ handleChangePassword
    \/ ChangeAnswer
    \/ ChangeError
    \/ handleLogout
    \/ Revisit

\* the gate and the panel over any settings row
SpecGate == InitAnySettings /\ [][GateNext]_vars

\* ====================================================== Auth Gate claims
\* a password counts as set when the column is neither null nor empty
PasswordStored == tblSettings.admin_password \notin {"NULL", ""}

\* the step in which checkSecurity ends
CheckEnds == checkPc # "done" /\ checkPc' = "done"

\* C12 as stated: whenever the entry check ends after its settings read has
\* answered, the state of the gate is the one the stored security_enabled,
\* the stored password and the marker determine: unlocked without security,
\* setupRequired without a password, otherwise unlocked with the marker and
\* locked without it.
C12_EntryCheckByStoreAlone ==
    [][(CheckEnds /\ ~CheckSettingsError) =>
          GateState' = IF ~tblSettings.security_enabled THEN "unlocked"
                       ELSE IF ~PasswordStored THEN "setupRequired"
                       ELSE IF localAuth THEN "unlocked" ELSE "locked"]_vars

\* C12 amended: when the reads of the entry check answer, the state is the
\* one security_enabled, the stored password and the marker determine; when
\* the settings read fails the gate is locked; when is_password_set fails a
\* password is taken to be set, so the marker alone decides between unlocked
\* and locked. is_password_set is only asked when security_enabled is true.
C12_EntryCheckOutcome ==
    [][/\ (CheckSettingsOk /\ ~tblSettings.security_enabled) =>
             GateState' = "unlocked"
       /\ (CheckSettingsOk /\ tblSettings.security_enabled) =>
             GateState' = "loading"
       /\ checkPc = "rpc" => tblSettings.security_enabled
       /\ CheckRpcOk =>
             GateState' = IF ~PasswordStored THEN "setupRequired"
                          ELSE IF localAuth THEN "unlocked" ELSE "locked"
       /\ CheckSettingsError => GateState' = "locked"
       /\ CheckRpcError =>
             GateState' = IF localAuth THEN "unlocked" ELSE "locked"]_vars

C12_Witness ==
    /\ checkPc = "done"
    /\ GateState = "setupRequired"
    /\ tblSettings.security_enabled
    /\ tblSettings.admin_password = "NULL"
    /\ localAuth
    /\ lastSubmit.form = "none"

\* C13: the gate leaves the locked state for the unlocked one, and the marker
\* becomes set while the gate is locked, only in the step in which
\* verify_admin_password answers true for the password that was submitted,
\* that is, the stored one; an answer of false and an error of the rpc leave
\* the gate locked and the marker as it was; a failed settings read of the
\* entry check ends in locked.
C13_UnlockOnlyOnVerifiedPassword ==
    [][/\ (GateState = "locked"
              /\ (GateState' = "unlocked" \/ (~localAuth /\ localAuth'))) =>
            /\ gateReq.kind = "login"
            /\ tblSettings.admin_password # "NULL"
            /\ gateReq.password = tblSettings.admin_password
            /\ GateState' = "unlocked"
            /\ localAuth'
       /\ (LoginAnswer /\ gateReq.password # tblSettings.admin_password) =>
            (GateState' = "locked" /\ localAuth' = localAuth
             /\ notice' = "Incorrect Password")
       /\ LoginError =>
            (GateState' = "locked" /\ localAuth' = localAuth
             /\ notice' = "Login Failed")
       /\ CheckSettingsError =>
            (GateState' = "locked" /\ localAuth' = localAuth)
       /\ (handleLogin \/ LoginAnswer \/ LoginError) =>
            tblSettings' = tblSettings]_vars

C13_Witness ==
    /\ notice = "Access Granted"
    /\ lastSubmit = [form |-> "login", current |-> "", password |-> "b",
                     confirm |-> ""]
    /\ tblSettings.admin_password = "b"
    /\ GateState = "unlocked"
    /\ localAuth

\* C14: when the update of a password setup succeeds, from the Setup Security
\* screen of the gate or from the setup modal of the panel, the stored
\* password is the submitted one, the update carried security_enabled = true
\* and the store holds it, the marker is set and the gate is unlocked.
C14_SetupWritesAndLogsIn ==
    [][/\ SetupOk =>
            /\ tblSettings'.admin_password = gateReq.password
            /\ gateReq.password # ""
            /\ tblSettings'.security_enabled
            /\ localAuth'
            /\ GateState' = "unlocked"
       /\ PanelSetupOk =>
            /\ tblSettings'.admin_password = panelReq.password
            /\ panelReq.password # ""
            /\ panelReq.security = "on"
            /\ tblSettings'.security_enabled
            /\ localAuth'
            /\ GateState' = "unlocked"]_vars

\* a submission of the setup form with an empty password or with two values
\* that differ
RejectedSubmit ==
    lastSubmit'.password = "" \/ lastSubmit'.password # lastSubmit'.confirm

\* C15: a setup submitted with two values that differ, or with an empty
\* password, starts no request and leaves the settings row and the marker as
\* they are; on the Setup Security screen the gate stays in setupRequired, in
\* the panel the setup modal stays open.
C15_RejectedSetupWritesNothing ==
    [][/\ (handleSetup /\ RejectedSubmit) =>
            /\ gateReq' = [kind |-> "none", password |-> ""]
            /\ ~verifying'
            /\ tblSettings' = tblSettings
            /\ localAuth' = localAuth
            /\ GateState' = "setupRequired"
       /\ (handleSetupPassword /\ RejectedSubmit) =>
            /\ panelReq'.kind = "none"
            /\ tblSettings' = tblSettings
            /\ localAuth' = localAuth
            /\ showSetupModal'
            /\ GateState' = "unlocked"
       /\ tblSettings'.admin_password # tblSettings.admin_password =>
            tblSettings'.admin_password # ""]_vars

C15_Witness ==
    /\ lastSubmit = [form |-> "gateSetup", current |-> "", password |-> "",
                     confirm |-> ""]
    /\ notice = "Passwords do not match"
    /\ GateState = "setupRequired"
    /\ gateReq.kind = "none"
    /\ tblSettings.admin_password = "NULL"
    /\ ~localAuth

\* the entry check that follows a logout ends
CheckAfterLogoutEnds == lastSubmit.form = "logout" /\ CheckEnds

C17_FirstVisitShowsSetup ==
    [][/\ (tblSettings = InitialSettings /\ ~localAuth /\ CheckSettingsOk) =>
            (checkPc' = "rpc" /\ GateState' = "loading")
       /\ (tblSettings = InitialSettings /\ ~localAuth /\ CheckRpcOk) =>
            GateState' = "setupRequired"
       /\ SetupOk => (GateState' = "unlocked" /\ localAuth')]_vars

\* ================================================== deleteAnnouncement
\* deleteAnnouncement(id, imageUrl) of a row of the local list, up to its
\* first await: every row carries the public url of its file, so the media
\* removal is asked for first
deleteAnnouncement ==
    /\ delReq.pc \in {"none", "done"}
    /\ CanFetch
    /\ \E i \in DOMAIN adminAnnouncements :
          delReq' = [pc |-> "storage", id |-> adminAnnouncements[i].id,
                     media |-> "none"]
    /\ UNCHANGED <<storeVars, cyclerVars, editorVars, gateVars, editReq, bucket>>

\* storage.remove([fileName]) succeeds
StorageRemoveOk ==
    /\ delReq.pc = "storage"
    /\ bucket' = bucket \ {delReq.id}
    /\ delReq' = [delReq EXCEPT !.pc = "record", !.media = "removed"]
    /\ UNCHANGED <<storeVars, cyclerVars, editorVars, gateVars, editReq>>

\* a handler that gives up when the media removal fails
StorageRemoveErrorAborts ==
    /\ delReq.pc = "storage"
    /\ delReq' = [delReq EXCEPT !.pc = "done", !.media = "failed"]
    /\ toast' = "Failed to delete display"
    /\ UNCHANGED <<storeVars, cyclerVars, gateVars, editReq, bucket, adminAnnouncements,
                   hasOrderChanges, savingOrder, saveReq, adminFetches,
                   lastSaved, operatorOrder>>

\* storage.remove answers with storageError: it is logged and the handler
\* goes on
StorageRemoveError ==
    /\ delReq.pc = "storage"
    /\ delReq' = [delReq EXCEPT !.pc = "record", !.media = "failed"]
    /\ UNCHANGED <<storeVars, cyclerVars, editorVars, gateVars, editReq, bucket>>

\* .delete().eq('id', id) succeeds: toast, then fetchAnnouncements()
RecordDeleteOk ==
    /\ delReq.pc = "record"
    /\ tblAnnouncements' = {r \in tblAnnouncements : r.id # delReq.id}
    /\ toast' = "Display deleted"
    /\ adminFetches' = adminFetches + 1
    /\ lastSaved' = <<>>
    /\ UNCHANGED operatorOrder
    /\ delReq' = [delReq EXCEPT !.pc = "done"]
    /\ UNCHANGED <<tblSettings, nextId, cyclerVars, gateVars, editReq, bucket,
                   adminAnnouncements, hasOrderChanges, savingOrder, saveReq>>

\* the record deletion fails: the catch block
RecordDeleteError ==
    /\ delReq.pc = "record"
    /\ toast' = "Failed to delete display"
    /\ delReq' = [delReq EXCEPT !.pc = "done"]
    /\ UNCHANGED <<storeVars, cyclerVars, gateVars, editReq, bucket, adminAnnouncements,
                   hasOrderChanges, savingOrder, saveReq, adminFetches,
                   lastSaved, operatorOrder>>

DeleteNext ==
    \/ AdminFetchOk
    \/ AdminFetchError
    \/ confirmUpload
    \/ deleteAnnouncement
    \/ StorageRemoveOk
    \/ StorageRemoveError
    \/ RecordDeleteOk
    \/ RecordDeleteError

SpecDelete == Init /\ [][DeleteNext]_vars

\* ------------------------------------------------- deleteAnnouncement claim
StoredIds == {r.id : r \in tblAnnouncements}

\* C20: deleteAnnouncement asks for the media removal before anything is
\* deleted, and goes on to the record deletion whether the removal succeeded
\* or failed; a row leaves the table only after the removal of its file has
\* been tried; when the record deletion succeeds the row is gone from the
\* table, a fetch is started, and the list of every fetch that answers
\* afterwards is without the item.
C20_DeleteSurvivesMediaFailure ==
    [][/\ deleteAnnouncement =>
            (delReq'.pc = "storage" /\ tblAnnouncements' = tblAnnouncements
             /\ bucket' = bucket)
       /\ (StorageRemoveOk \/ StorageRemoveError) =>
            (delReq'.pc = "record" /\ tblAnnouncements' = tblAnnouncements)
       /\ StoredIds' # StoredIds /\ StoredIds' \subseteq StoredIds =>
            /\ delReq.pc = "record"
            /\ delReq.media \in {"removed", "failed"}
            /\ StoredIds' = StoredIds \ {delReq.id}
       /\ RecordDeleteOk =>
            /\ delReq.id \notin StoredIds'
            /\ adminFetches' = adminFetches + 1
            /\ toast' = "Display deleted"
       /\ AdminFetchOk =>
            /\ \A i \in DOMAIN adminAnnouncements' :
                  adminAnnouncements'[i].id \in StoredIds
            /\ (delReq.pc = "done" /\ toast = "Display deleted") =>
                  \A i \in DOMAIN adminAnnouncements' :
                      adminAnnouncements'[i].id # delReq.id]_vars

C20_Witness ==
    /\ delReq = [pc |-> "done", id |-> 2, media |-> "failed"]
    /\ toast = "Display deleted"
    /\ 2 \in bucket
    /\ 2 \notin StoredIds
    /\ adminFetches = 0
    /\ IdsOf(adminAnnouncements) = <<3, 1>>

\* =========================================== Display Cycler claims, continued
\* the milliseconds an item with the duration d stays: d seconds, 10 when
\* the duration is unset
StayMs(d) == IF d = 0 THEN 10000 ELSE d * 1000

\* C21: the advance timer that is armed is the one of the current item and
\* its delay is that item's display_duration in seconds, 10 seconds when the
\* duration is unset; when it fires the index moves to the next item, wrapping
\* from the last to the first, and the timer armed then has the delay of that
\* item.
C21_TimerUsesCurrentDuration ==
    [][/\ \A t \in Timeouts' :
            /\ t.idx = currentIndex'
            /\ currentIndex' < Len(announcements') =>
                  t.delay = StayMs(announcements'[currentIndex' + 1].display_duration)
       /\ (TimerFire /\ currentIndex < Len(announcements)) =>
            /\ \E t \in Timeouts :
                  t.delay = StayMs(announcements[currentIndex + 1].display_duration)
            /\ currentIndex' = (currentIndex + 1) % Len(announcements)
            /\ \E t \in Timeouts' :
                  t.delay = StayMs(announcements[currentIndex' + 1].display_duration)]_vars

C21_Witness ==
    /\ recording
    /\ Len(announcements) = 2
    /\ announcements[1].display_duration = 5
    /\ announcements[2].display_duration = 0
    /\ cycleStart = 0
    /\ cycleFires = 2
    /\ currentIndex = 0
    /\ \E t \in Timeouts : t.delay = 5000

\* ============================================================== item edits
\* the text of a number input, one character per element
DurationTexts == {<<>>, <<"0">>, <<"-", "3">>, <<"1", "0">>}

\* the value of a decimal digit
DigitValue(c) ==
    CASE c = "0" -> 0 [] c = "1" -> 1 [] c = "2" -> 2 [] c = "3" -> 3
      [] c = "4" -> 4 [] c = "5" -> 5 [] c = "6" -> 6 [] c = "7" -> 7
      [] c = "8" -> 8 [] c = "9" -> 9

RECURSIVE DigitsValue(_)
DigitsValue(text) ==
    IF text = <<>> THEN 0
    ELSE 10 * DigitsValue(SubSeq(text, 1, Len(text) - 1)) + DigitValue(text[Len(text)])

\* Number(e.target.value) on the text of a number input: the empty text is 0,
\* a leading minus sign negates
Number(text) ==
    IF text = <<>> THEN 0
    ELSE IF Head(text) = "-" THEN 0 - DigitsValue(Tail(text))
    ELSE DigitsValue(text)

\* the upload form with a duration typed into its field: setDuration(Number(..))
\* and then confirmUpload
confirmUploadTyped == \E text \in DurationTexts : confirmUploadWith(Number(text))

\* the items the item edits are explored on
MaxEditItems == 2

\* an upload while the list is within the bound of the item edits
EditorUpload == nextId <= MaxEditItems /\ (confirmUpload \/ confirmUploadTyped)

\* the request of an edit
EditRequest(kind, id, title, duration, active) ==
    [kind |-> kind, id |-> id, title |-> title, duration |-> duration,
     active |-> active]

\* an edit may be issued: the model holds one edit in flight and keeps a call
\* of fetchAnnouncements for its answer
CanEdit == editReq = NoEdit /\ CanFetch

\* the frame of an edit being issued
EditIssued ==
    UNCHANGED <<storeVars, cyclerVars, editorVars, gateVars, mediaVars>>

\* if (value !== initialTitle) of EditableTitle
TitleChanged(value, initialTitle) == value # initialTitle

\* handleSave of EditableDuration: if (value !== initialDuration)
DurationChanged(value, initialDuration) == value # initialDuration

\* EditableTitle's handleSave calling updateTitle(id, value)
updateTitle ==
    /\ CanEdit
    /\ \E i \in DOMAIN adminAnnouncements, value \in Titles :
          /\ TitleChanged(value, adminAnnouncements[i].title)
          /\ editReq' = EditRequest("title", adminAnnouncements[i].id, value, 0, FALSE)
    /\ EditIssued

\* EditableDuration's handleSave calling updateDuration(id, value), the value
\* set by onChange from the text typed
updateDuration ==
    /\ CanEdit
    /\ \E i \in DOMAIN adminAnnouncements, text \in DurationTexts :
          /\ DurationChanged(Number(text), adminAnnouncements[i].display_duration)
          /\ editReq' = EditRequest("duration", adminAnnouncements[i].id, "",
                                    Number(text), FALSE)
    /\ EditIssued

\* the Switch's onCheckedChange calling toggleActive(item.id, checked)
toggleActive ==
    /\ CanEdit
    /\ \E i \in DOMAIN adminAnnouncements :
          editReq' = EditRequest("active", adminAnnouncements[i].id, "", 0,
                                 ~adminAnnouncements[i].active)
    /\ EditIssued

\* an update that writes the whole request into the row
UpdateAllFields(r, req) ==
    [r EXCEPT !.title = req.title, !.display_duration = req.duration,
              !.active = req.active]

\* .update({ title }) / .update({ display_duration }) / .update({ active })
UpdateField(r, req) ==
    CASE req.kind = "title" -> [r EXCEPT !.title = req.title]
      [] req.kind = "duration" -> [r EXCEPT !.display_duration = req.duration]
      [] req.kind = "active" -> [r EXCEPT !.active = req.active]

\* .eq('id', id): the rows with this id are updated, the others kept
UpdateWhereId(tbl, req) ==
    {IF r.id = req.id THEN UpdateField(r, req) ELSE r : r \in tbl}

\* the toast of a successful edit
EditSuccessToast(kind) ==
    CASE kind = "title" -> "Title updated"
      [] kind = "duration" -> "Duration updated"
      [] kind = "active" -> "status changed"

\* the toast of a failed edit
EditErrorToast(kind) ==
    CASE kind = "title" -> "Failed to update title"
      [] kind = "duration" -> "Failed to update duration"
      [] kind = "active" -> "Failed to update status"

\* the update answers without error: toast.success and fetchAnnouncements()
EditOk ==
    /\ editReq # NoEdit
    /\ tblAnnouncements' = UpdateWhereId(tblAnnouncements, editReq)
    /\ toast' = EditSuccessToast(editReq.kind)
    /\ adminFetches' = adminFetches + 1
    /\ editReq' = NoEdit
    /\ UNCHANGED <<tblSettings, nextId, cyclerVars, gateVars, mediaVars,
                   adminAnnouncements, hasOrderChanges, savingOrder, saveReq,
                   lastSaved, operatorOrder>>

\* the update answers with an error: toast.error only
EditError ==
    /\ editReq # NoEdit
    /\ toast' = EditErrorToast(editReq.kind)
    /\ editReq' = NoEdit
    /\ UNCHANGED <<storeVars, cyclerVars, gateVars, mediaVars,
                   adminAnnouncements, hasOrderChanges, savingOrder, saveReq,
                   adminFetches, lastSaved, operatorOrder>>

ItemEditNext ==
    \/ AdminFetchOk
    \/ AdminFetchError
    \/ EditorUpload
    \/ updateTitle
    \/ updateDuration
    \/ toggleActive
    \/ EditOk
    \/ EditError

SpecItemEdits == Init /\ [][ItemEditNext]_vars

\* ------------------------------------------------------- item edit claims
\* C22: every display_duration the admin editor or the upload form writes to
\* the store is a positive integer: no row stored and no updateDuration in
\* flight carries a duration below 1
C22_WrittenDurationsPositive ==
    /\ \A r \in tblAnnouncements : r.display_duration >= 1
    /\ editReq.kind = "duration" => editReq.duration >= 1

\* an edit in flight is answered in this step
EditAnswered == editReq # NoEdit /\ editReq' = NoEdit

\* new is old with at most the field named by kind written
FieldsKept(old, new, kind) ==
    /\ new.id = old.id
    /\ new.created_at = old.created_at
    /\ new.order_index = old.order_index
    /\ kind # "title" => new.title = old.title
    /\ kind # "duration" => new.display_duration = old.display_duration
    /\ kind # "active" => new.active = old.active

\* the value the request carries for its field is the value of the row
FieldWritten(r, req) ==
    /\ req.kind = "title" => r.title = req.title
    /\ req.kind = "duration" => r.display_duration = req.duration
    /\ req.kind = "active" => r.active = req.active

\* C23: a title, duration or active edit writes only that field of that item;
\* a title or duration edit is issued only with a value that differs from the
\* one the list shows; a failed write leaves the store and the local list
\* unchanged and issues no re-fetch; a successful one issues a re-fetch
C23_EditWritesOneField ==
    [][/\ EditAnswered =>
            /\ Cardinality(tblAnnouncements') = Cardinality(tblAnnouncements)
            /\ \A old \in tblAnnouncements : \E new \in tblAnnouncements' :
                  FieldsKept(old, new,
                             IF old.id = editReq.id THEN editReq.kind ELSE "none")
            /\ adminAnnouncements' = adminAnnouncements
            /\ toast' = EditSuccessToast(editReq.kind) =>
                  /\ adminFetches' = adminFetches + 1
                  /\ \A r \in tblAnnouncements' :
                        r.id = editReq.id => FieldWritten(r, editReq)
            /\ toast' # EditSuccessToast(editReq.kind) =>
                  /\ tblAnnouncements' = tblAnnouncements
                  /\ adminFetches' = adminFetches
       /\ (editReq = NoEdit /\ editReq' # NoEdit) =>
            /\ tblAnnouncements' = tblAnnouncements
            /\ \E i \in DOMAIN adminAnnouncements :
                  /\ adminAnnouncements[i].id = editReq'.id
                  /\ editReq'.kind = "title" =>
                        editReq'.title # adminAnnouncements[i].title
                  /\ editReq'.kind = "duration" =>
                        editReq'.duration # adminAnnouncements[i].display_duration]_vars

\* a title edit has succeeded on one of two stored items: one row carries the
\* new title, the other its uploaded one, and the re-fetch is in flight
C23_Witness ==
    /\ toast = "Title updated"
    /\ editReq = NoEdit
    /\ adminFetches > 0
    /\ \E r, q \in tblAnnouncements :
          /\ r.id # q.id
          /\ r.title = "news" /\ q.title = UploadTitle
          /\ r.display_duration = q.display_duration

\* ------------------------------------------------------------ reorder claim
\* the items of a list other than the one with this id, in their order
Others(items, id) == SelectSeq(items, LAMBDA x : x.id # id)

\* the same items, each once
IsPermutation(before, after) ==
    /\ Len(after) = Len(before)
    /\ {after[i] : i \in DOMAIN after} = {before[i] : i \in DOMAIN before}
    /\ \A i, j \in DOMAIN after : after[i].id = after[j].id => i = j

\* C24: every reorder keeps the local list a permutation of itself; move
\* up/down exchanges the item with its immediate neighbour and leaves every
\* other position as it was; a drag move puts the dragged item at the position
\* of the target and keeps the relative order of all the others; move up on
\* the first item and move down on the last change neither list nor flag
C24_ReorderIsPermutation ==
    [][/\ \A index \in DOMAIN adminAnnouncements :
            /\ index = 1 =>
                  MoveResult(adminAnnouncements, hasOrderChanges, index, "up")
                     = [items |-> adminAnnouncements, dirty |-> hasOrderChanges]
            /\ index = Len(adminAnnouncements) =>
                  MoveResult(adminAnnouncements, hasOrderChanges, index, "down")
                     = [items |-> adminAnnouncements, dirty |-> hasOrderChanges]
       /\ (moveAnnouncement \/ handleDragEnd) =>
            /\ IsPermutation(adminAnnouncements, adminAnnouncements')
            /\ hasOrderChanges'
       /\ moveAnnouncement =>
            \E i \in 1..(Len(adminAnnouncements) - 1) :
               /\ adminAnnouncements'[i] = adminAnnouncements[i + 1]
               /\ adminAnnouncements'[i + 1] = adminAnnouncements[i]
               /\ \A k \in DOMAIN adminAnnouncements \ {i, i + 1} :
                     adminAnnouncements'[k] = adminAnnouncements[k]
       /\ handleDragEnd =>
            \E a, o \in DOMAIN adminAnnouncements :
               /\ a # o
               /\ adminAnnouncements'[o] = adminAnnouncements[a]
               /\ Others(adminAnnouncements', adminAnnouncements[a].id)
                     = Others(adminAnnouncements, adminAnnouncements[a].id)]_vars

\* three items fetched as 3, 2, 1 stand in the order a drag of the first item
\* onto the last produces, unsaved
C24_Witness ==
    /\ Len(adminAnnouncements) = 3
    /\ IdsOf(adminAnnouncements) = <<2, 1, 3>>
    /\ hasOrderChanges
    /\ ~savingOrder
    /\ lastSaved = <<>>

\* =================================================== the cycler with a clock
\* the step of the clock, in ms
TickMs == 5000

\* display_duration of the two items on screen, in seconds
TimedDurations == {5, 120}

\* the settings row with polling every minute
PollingSettings == [InitialSettings EXCEPT !.refresh_interval = 1]

\* two active items in the store, the cycler just mounted
InitTimed ==
    /\ \E d1, d2 \in TimedDurations :
          tblAnnouncements = InsertRow(InsertRow({}, 1, d1), 2, d2)
    /\ nextId = 3
    /\ tblSettings = PollingSettings
    /\ InitCycler /\ InitEditor /\ InitGate /\ InitMedia
    /\ localAuth = FALSE
    /\ recording = FALSE

\* the timer's delay has elapsed
Due(t) == t.age >= t.delay

\* a request is in flight or a callback is due: it is served before the clock
\* moves on
Pending == fetchAnn > 0 \/ fetchSet > 0 \/ \E t \in timers : Due(t)

\* TickMs pass
Tick ==
    /\ mounted
    /\ timers # {}
    /\ ~Pending
    /\ timers' = {[t EXCEPT !.age = t.age + TickMs] : t \in timers}
    /\ UNCHANGED <<storeVars, editorVars, gateVars, mediaVars, editReq, mounted,
                   announcements, currentIndex, loading, refreshInterval, timer,
                   pollInterval, fetchAnn, fetchSet>>
    /\ KeepHistory

\* the advance timer fires once its delay has elapsed
TimedTimerFire ==
    /\ \A t \in Timeouts : Due(t)
    /\ TimerFire

\* the poll interval fires once its period has elapsed and starts over
TimedPollFire ==
    /\ mounted
    /\ fetchAnn + fetchSet < MaxFetches
    /\ \E t \in Intervals :
          /\ Due(t)
          /\ timers' = (timers \ {t}) \cup {[t EXCEPT !.age = 0]}
    /\ fetchAnn' = fetchAnn + 1
    /\ UNCHANGED <<storeVars, editorVars, gateVars, mediaVars, editReq, mounted,
                   announcements, currentIndex, loading, refreshInterval, timer,
                   pollInterval, fetchSet>>
    /\ KeepHistory

\* an answer to the announcements query
AnnouncementsAnswer == FetchAnnouncementsOk \/ FetchAnnouncementsError

\* an answer to the settings query
SettingsAnswer == FetchSettingsOk \/ FetchSettingsError

TimedNext ==
    \/ Tick
    \/ TimedTimerFire
    \/ TimedPollFire
    \/ FetchAnnouncementsOk
    \/ FetchAnnouncementsError
    \/ FetchSettingsOk
    \/ FetchSettingsError

\* time passes, due callbacks run and requests are answered
SpecTimed ==
    /\ InitTimed /\ [][TimedNext]_vars
    /\ WF_vars(Tick)
    /\ WF_vars(TimedTimerFire)
    /\ WF_vars(TimedPollFire)
    /\ WF_vars(AnnouncementsAnswer)
    /\ WF_vars(SettingsAnswer)

\* ------------------------------------------------------------ timed claim
\* C25: with two or more active items loaded and polling enabled the cycler
\* always eventually advances from the current item, whatever the durations
\* and the refresh interval: no item is held on screen for ever
C25_AlwaysEventuallyAdvances ==
    /\ (Len(announcements) >= 2 /\ currentIndex = 0) ~> (currentIndex # 0)
    /\ (Len(announcements) >= 2 /\ currentIndex = 1) ~> (currentIndex # 1)

\* ======================================== reordering, saving and deleting
\* an upload with the form's duration while the list is within the bound of
\* the item edits
BoundedUpload == nextId <= MaxEditItems /\ confirmUpload

\* one admin session that reorders, saves and deletes
SaveDeleteNext ==
    \/ AdminFetchOk
    \/ AdminFetchError
    \/ BoundedUpload
    \/ handleDragEnd
    \/ moveAnnouncement
    \/ saveOrderStart
    \/ saveOrderOk
    \/ saveOrderError
    \/ deleteAnnouncement
    \/ StorageRemoveOk
    \/ StorageRemoveError
    \/ RecordDeleteOk
    \/ RecordDeleteError

SpecSaveDelete == Init /\ [][SaveDeleteNext]_vars

\* C26: once the record of an item has been deleted no later operation puts it
\* back. Ids are handed out in increasing order, so a row that appears in the
\* store with an id below nextId, and was not there before, is a deleted one
C26_DeletedStaysDeleted ==
    [][\A r \in tblAnnouncements' : r.id < nextId => r.id \in StoredIds]_vars

\* --------------------------------------------------- unsaved order claims
\* the ids two lists share
CommonIds(before, after) ==
    {before[i].id : i \in DOMAIN before} \cap {after[i].id : i \in DOMAIN after}

\* C27: while the dirty flag is set an answer to fetchAnnouncements does not
\* replace the unsaved local order: the items the list held before and holds
\* after stand in the same order
C27_RefetchKeepsUnsavedOrder ==
    [][(hasOrderChanges /\ adminFetches' < adminFetches) =>
          IdsAmong(adminAnnouncements',
                   CommonIds(adminAnnouncements, adminAnnouncements'))
            = IdsAmong(adminAnnouncements,
                       CommonIds(adminAnnouncements, adminAnnouncements'))]_vars

\* the store after MaxItems uploads
RECURSIVE Uploaded(_)
Uploaded(n) == IF n = 0 THEN {} ELSE InsertRow(Uploaded(n - 1), n, DurationFormState)

\* the editor at rest with the uploaded items fetched and nothing in flight
InitLoaded ==
    /\ tblAnnouncements = Uploaded(MaxItems)
    /\ tblSettings = InitialSettings
    /\ nextId = MaxItems + 1
    /\ InitCycler /\ InitGate
    /\ adminAnnouncements = EditorQuery(Uploaded(MaxItems))
    /\ hasOrderChanges = FALSE
    /\ savingOrder = FALSE
    /\ saveReq = <<>>
    /\ toast = "none"
    /\ adminFetches = 0
    /\ lastSaved = <<>>
    /\ operatorOrder = <<>>
    /\ bucket = StoredIds
    /\ delReq = NoDelete
    /\ editReq = NoEdit
    /\ localAuth = FALSE
    /\ recording = FALSE

\* reordering and saving, the save's re-fetch included
ReorderNext ==
    \/ handleDragEnd
    \/ moveAnnouncement
    \/ saveOrderStart
    \/ saveOrderOk
    \/ saveOrderError
    \/ AdminFetchOk
    \/ AdminFetchError

SpecReorder == InitLoaded /\ [][ReorderNext]_vars

\* C28: whenever the dirty flag is false and no request is in flight, the
\* store's order of the items is the last order the operator produced
C28_NoReorderDropped ==
    (/\ ~hasOrderChanges
     /\ ~savingOrder
     /\ adminFetches = 0
     /\ operatorOrder # <<>>) =>
        IdsAmong(EditorQuery(tblAnnouncements),
                 {operatorOrder[i] : i \in DOMAIN operatorOrder})
          = SelectSeq(operatorOrder, LAMBDA id : id \in StoredIds)

\* ================================================ the initial settings row
\* the gate and the panel from the row the setup script inserts; the Setup
\* Security screen, which no state from that row shows, has no action here
InitialRowNext ==
    \/ CheckSettingsOk
    \/ CheckSettingsError
    \/ CheckRpcOk
    \/ CheckRpcError
    \/ handleLogin
    \/ LoginAnswer
    \/ LoginError
    \/ PanelSettingsOk
    \/ PanelSettingsError
    \/ PanelRpcOk
    \/ PanelRpcError
    \/ handleToggleSecurity
    \/ CancelSetupModal
    \/ saveSettings
    \/ saveSettingsOk
    \/ saveSettingsError
    \/ handleSetupPassword
    \/ PanelSetupOk
    \/ PanelSetupError
    \/ handleChangePassword
    \/ ChangeAnswer
    \/ ChangeError
    \/ handleLogout
    \/ Revisit

SpecInitialRow == Init /\ [][InitialRowNext]_vars

\* C29: from the initial settings row, in every store state the operations of
\* the application reach security_enabled = true implies a non-empty password
\* is stored, and no operation removes a stored password; the Setup Security
\* screen, whose form is the only operation left out, is never shown
C29_SecurityImpliesPassword ==
    [][/\ tblSettings'.security_enabled => PasswordStored'
       /\ PasswordStored => PasswordStored'
       /\ GateState' # "setupRequired"]_vars

\* protection is on with a password stored, saved from the panel with the
\* switch on
C29_Witness ==
    /\ tblSettings.security_enabled
    /\ PasswordStored
    /\ panelSecurity = "on"
    /\ isPasswordSet
    /\ notice = "Settings saved successfully"
    /\ tblSettings.refresh_interval = 1

\* ------------------------------------------------ the stored password
\* C30: saveSettings writes refresh_interval and security_enabled of the
\* settings row and leaves the stored password as it is; the stored password
\* changes only when a password setup succeeds, to the password submitted, or
\* when change_admin_password is called with the stored password as current
C30_PasswordWrittenOnlyBySetupOrChange ==
    [][/\ (panelReq.kind = "save" /\ panelReq'.kind = "none") =>
            /\ tblSettings'.admin_password = tblSettings.admin_password
            /\ notice' = "Settings saved successfully" =>
                  /\ tblSettings'.refresh_interval = panelReq.refresh
                  /\ panelReq.security # "unset" =>
                        tblSettings'.security_enabled = (panelReq.security = "on")
       /\ tblSettings'.admin_password # tblSettings.admin_password =>
            \/ /\ panelReq.kind = "setup"
               /\ notice' = "Security enabled and password set"
               /\ tblSettings'.admin_password = panelReq.password
            \/ /\ gateReq.kind = "setup"
               /\ notice' = "Security Configured"
               /\ tblSettings'.admin_password = gateReq.password
            \/ /\ panelReq.kind = "change"
               /\ tblSettings.admin_password = panelReq.current
               /\ tblSettings'.admin_password = panelReq.password]_vars

\* settings were saved over a row that holds a password: the interval is the
\* saved one and the password is still there
C30_Witness ==
    /\ notice = "Settings saved successfully"
    /\ tblSettings.refresh_interval = 0
    /\ tblSettings.admin_password = "b"
    /\ ~tblSettings.security_enabled
    /\ panelReq = NoPanelReq

====
